---- MODULE Spec2Model ----
(***************************************************************************)
(* FarmOps SMS: the command parser (app/parser.py), the response renderer  *)
(* (generate_response) and the SMS handler with its CattleDB calls         *)
(* (app/main.py, app/database.py).                                         *)
(*                                                                         *)
(* A Python str is a sequence of one-character strings, so that substring  *)
(* tests (`w in lower`) and regular-expression searches act on characters  *)
(* as they do in the code.  A float is a decimal [m, e] standing for       *)
(* m / 10^e; confidences are kept in hundredths (0.85 is 85).              *)
(***************************************************************************)
EXTENDS Integers, Sequences, FiniteSets, TLC

VARIABLES
    CATTLE_TYPES, EVENT_TYPES, LOCATIONS, QUERY_WORDS,  \* class attributes of CommandParser
    today,          \* date.today()
    pc,             \* position of the call under study
    text,           \* argument of the last parser.parse call
    command,        \* what that call returned (or the error it raised)
    reply,          \* generate_response of the last command
    seen,           \* an earlier call's text, day and outcome
    cattle, locations, events, sales, messages,   \* the tables of farmops.db
    sender,         \* From of the last request
    result,         \* the handler's result dict
    AUTHORIZED_NUMBERS   \* the configuration read at start-up

tables == <<CATTLE_TYPES, EVENT_TYPES, LOCATIONS, QUERY_WORDS>>
store == <<cattle, locations, events, sales, messages>>
vars == <<CATTLE_TYPES, EVENT_TYPES, LOCATIONS, QUERY_WORDS, today, pc, text,
          command, reply, seen, cattle, locations, events, sales, messages,
          sender, result, AUTHORIZED_NUMBERS>>

(***************************************************************************)
(* Characters and the str methods the parser uses.                         *)
(***************************************************************************)
LowerAlpha == <<"a","b","c","d","e","f","g","h","i","j","k","l","m","n","o","p","q","r","s","t","u","v","w","x","y","z">>
UpperAlpha == <<"A","B","C","D","E","F","G","H","I","J","K","L","M","N","O","P","Q","R","S","T","U","V","W","X","Y","Z">>
DigitSeq == <<"0","1","2","3","4","5","6","7","8","9">>

Range(f) == {f[i] : i \in DOMAIN f}
Min(S) == CHOOSE x \in S : \A y \in S : x <= y
Max(S) == CHOOSE x \in S : \A y \in S : x >= y

DigitC == Range(DigitSeq)
LetterC == Range(LowerAlpha) \cup Range(UpperAlpha)
\* \w, \s and [\d.] of Python's re on the characters of the model's alphabet
WordC == DigitC \cup LetterC \cup {"_"}
SpaceC == {" ", "\t", "\n"}
NumC == DigitC \cup {"."}

IndexOf(seq, c) == CHOOSE i \in 1..Len(seq) : seq[i] = c
LowerChar(c) == IF c \in Range(UpperAlpha) THEN LowerAlpha[IndexOf(UpperAlpha, c)] ELSE c
UpperChar(c) == IF c \in Range(LowerAlpha) THEN UpperAlpha[IndexOf(LowerAlpha, c)] ELSE c

\* str.lower(), str.upper()
Lower(s) == [i \in 1..Len(s) |-> LowerChar(s[i])]
Upper(s) == [i \in 1..Len(s) |-> UpperChar(s[i])]

\* str.title(): a letter is upper-cased after a non-letter, lower-cased after a letter
Title(s) ==
    [i \in 1..Len(s) |->
        IF i = 1 \/ s[i - 1] \notin LetterC THEN UpperChar(s[i]) ELSE LowerChar(s[i])]

\* str.strip()
Strip(s) ==
    LET keep == {i \in 1..Len(s) : s[i] \notin SpaceC}
    IN  IF keep = {} THEN << >> ELSE SubSeq(s, Min(keep), Max(keep))

\* w in s, for str
Contains(s, w) ==
    \E i \in 1..(Len(s) - Len(w) + 1) : SubSeq(s, i, i + Len(w) - 1) = w

\* any(w in s for w in words)
AnyIn(words, s) == \E k \in 1..Len(words) : Contains(s, words[k])

\* s[i:].startswith(w), positions counted from 1
StartsAt(s, i, w) ==
    /\ i >= 1
    /\ i + Len(w) - 1 <= Len(s)
    /\ SubSeq(s, i, i + Len(w) - 1) = w

\* the index of the last character of the longest run of characters of class C
\* that starts at i (i - 1 when the run is empty): a greedy C*
RunEnd(s, i, C) ==
    LET stop == {j \in i..Len(s) : s[j] \notin C}
    IN  IF stop = {} THEN Len(s) ELSE Min(stop) - 1

\* the position after a greedy \s* that starts at i
SkipSpace(s, i) == RunEnd(s, i, SpaceC) + 1

\* the ends (index of the last character) of the alternatives of `alts` that
\* match at i, in the order of the alternation
AltEnds(s, i, alts) ==
    {i + Len(alts[k]) - 1 : k \in {k \in 1..Len(alts) : StartsAt(s, i, alts[k])}}

\* a value of a slot: Python's None, str, int, float, date, dict
None == [t |-> "none"]
Str(s) == [t |-> "str", v |-> s]
Num(n) == [t |-> "int", v |-> n]
Flt(m, e) == [t |-> "float", m |-> m, e |-> e]
Dt(d) == [t |-> "date", y |-> d.y, m |-> d.m, d |-> d.d]
Dict(f) == [t |-> "dict", v |-> f]
EmptyDict == [k \in {} |-> None]

\* what re.match objects give: the captured text, or NoMatch (every capturing
\* group of the parser's patterns is non-empty when it takes part in a match)
NoMatch == << >>

(***************************************************************************)
(* int(), float(), dates.                                                  *)
(***************************************************************************)
DigitVal(c) == IndexOf(DigitSeq, c) - 1
DigitChar(n) == DigitSeq[n + 1]

\* int(s) for s matching \d+
RECURSIVE ToInt(_)
ToInt(s) ==
    IF s = << >> THEN 0
    ELSE 10 * ToInt(SubSeq(s, 1, Len(s) - 1)) + DigitVal(s[Len(s)])

RECURSIVE Pow10(_)
Pow10(e) == IF e = 0 THEN 1 ELSE 10 * Pow10(e - 1)

\* one float value has one representation: no trailing zero in the fraction
RECURSIVE Normal(_, _)
Normal(m, e) == IF e > 0 /\ m % 10 = 0 THEN Normal(m \div 10, e - 1) ELSE Flt(m, e)

\* float(s) for s matching [\d.]+ : a ValueError unless s holds at most one
\* point and at least one digit
FloatRaises(s) ==
    LET dots == {i \in 1..Len(s) : s[i] = "."}
    IN  Cardinality(dots) > 1 \/ Cardinality(dots) = Len(s)

ToFloat(s) ==
    LET dots == {i \in 1..Len(s) : s[i] = "."}
        digits == SelectSeq(s, LAMBDA c : c # ".")
        frac == IF dots = {} THEN 0 ELSE Len(s) - Min(dots)
    IN  Normal(ToInt(digits), frac)

IsLeap(y) == (y % 4 = 0 /\ y % 100 # 0) \/ y % 400 = 0
DaysIn(y, m) ==
    IF m = 2 THEN (IF IsLeap(y) THEN 29 ELSE 28)
    ELSE IF m \in {4, 6, 9, 11} THEN 30 ELSE 31

\* date.today() - timedelta(days=1)
Yesterday(d) ==
    IF d.d > 1 THEN [y |-> d.y, m |-> d.m, d |-> d.d - 1]
    ELSE IF d.m > 1 THEN [y |-> d.y, m |-> d.m - 1, d |-> DaysIn(d.y, d.m - 1)]
    ELSE [y |-> d.y - 1, m |-> 12, d |-> 31]

\* date.today().replace(day=1) and date(date.today().year, 1, 1)
FirstOfMonth(d) == [y |-> d.y, m |-> d.m, d |-> 1]
FirstOfYear(d) == [y |-> d.y, m |-> 1, d |-> 1]

\* date.strftime('%m%d')
MMDD(d) ==
    <<DigitChar(d.m \div 10), DigitChar(d.m % 10),
      DigitChar(d.d \div 10), DigitChar(d.d % 10)>>

(***************************************************************************)
(* The lexical tables, as the class body of CommandParser sets them.       *)
(***************************************************************************)
CattleTypesTable ==
    << [name |-> <<"c","a","l","f">>, words |-> <<<<"c","a","l","f">>, <<"c","a","l","v","e">>, <<"b","a","b","y">>, <<"n","e","w","b","o","r","n">>>>],
       [name |-> <<"c","o","w">>, words |-> <<<<"c","o","w">>, <<"m","a","m","a">>, <<"m","o","m","m","a">>, <<"m","o","t","h","e","r">>, <<"d","a","m">>>>],
       [name |-> <<"b","u","l","l">>, words |-> <<<<"b","u","l","l">>, <<"s","i","r","e">>, <<"d","a","d","d","y">>>>],
       [name |-> <<"s","t","e","e","r">>, words |-> <<<<"s","t","e","e","r">>, <<"s","t","e","e","r","s">>>>],
       [name |-> <<"h","e","i","f","e","r">>, words |-> <<<<"h","e","i","f","e","r">>, <<"h","e","i","f","e","r","s">>, <<"y","o","u","n","g"," ","c","o","w">>>>] >>

EventTypesTable ==
    << [name |-> <<"v","e","t">>,
        words |-> <<<<"v","e","t">>, <<"v","e","t","e","r","i","n","a","r","i","a","n">>, <<"d","o","c","t","o","r">>, <<"c","h","e","c","k","u","p">>, <<"c","h","e","c","k"," ","u","p">>, <<"c","h","e","c","k","-","u","p">>>>],
       [name |-> <<"t","r","e","a","t","m","e","n","t">>,
        words |-> <<<<"t","r","e","a","t">>, <<"t","r","e","a","t","m","e","n","t">>, <<"m","e","d","i","c","i","n","e">>, <<"m","e","d","i","c","a","t","e">>, <<"d","o","s","e">>, <<"s","h","o","t">>, <<"v","a","c","c","i","n","e">>>>],
       [name |-> <<"b","i","r","t","h">>,
        words |-> <<<<"b","o","r","n">>, <<"b","i","r","t","h">>, <<"c","a","l","v","e","d">>, <<"c","a","l","v","i","n","g">>, <<"d","r","o","p","p","e","d">>>>],
       [name |-> <<"d","e","a","t","h">>,
        words |-> <<<<"d","i","e","d">>, <<"d","e","a","d">>, <<"d","e","a","t","h">>, <<"p","a","s","s","e","d">>, <<"l","o","s","t">>>>],
       [name |-> <<"n","o","t","e">>,
        words |-> <<<<"n","o","t","e">>, <<"n","o","t","e","s">>, <<"c","o","m","m","e","n","t">>, <<"o","b","s","e","r","v","e">>, <<"s","a","w">>>>] >>

LocationsTable ==
    <<<<"p","a","s","t","u","r","e">>, <<"f","i","e","l","d">>, <<"b","a","r","n">>, <<"c","o","r","r","a","l">>, <<"p","e","n">>, <<"w","o","o","d","s">>, <<"h","a","y","f","i","e","l","d">>>>

QueryWordsTable ==
    <<<<"h","o","w"," ","m","a","n","y">>, <<"c","o","u","n","t">>, <<"t","o","t","a","l">>, <<"l","i","s","t">>, <<"s","h","o","w">>, <<"w","h","a","t">>, <<"w","h","e","r","e">>, <<"s","t","a","t","u","s">>>>

\* the first category of a table (dict order) one of whose words is in lower; 0: none
FirstCategory(table, lower) ==
    LET hits == {k \in 1..Len(table) : AnyIn(table[k].words, lower)}
    IN  IF hits = {} THEN 0 ELSE Min(hits)

\* the first word of a list that is in lower; 0: none
FirstWord(words, lower) ==
    LET hits == {k \in 1..Len(words) : Contains(lower, words[k])}
    IN  IF hits = {} THEN 0 ELSE Min(hits)

\* ParsedCommand, and the error a call raised instead of returning one
ParsedCommand(ctype, params, confidence, raw) ==
    [command_type |-> ctype, params |-> params, confidence |-> confidence, raw_text |-> raw]
Raise(exc) == [raised |-> exc]
Raised(r) == "raised" \in DOMAIN r

(***************************************************************************)
(* CommandParser._parse_add                                                *)
(***************************************************************************)
\* re.search(r"(?:tag\s*#?\s*)(\w+)", s).group(1)
TagAfterWord(s) ==
    LET start(i) ==
            LET j1 == SkipSpace(s, i + 3)
                j2 == SkipSpace(s, j1 + 1)
            IN  IF j1 <= Len(s) /\ s[j1] = "#" /\ j2 <= Len(s) /\ s[j2] \in WordC THEN j2
                ELSE IF j1 <= Len(s) /\ s[j1] \in WordC THEN j1
                ELSE 0
        at == {i \in 1..Len(s) : StartsAt(s, i, <<"t","a","g">>) /\ start(i) # 0}
    IN  IF at = {} THEN NoMatch
        ELSE SubSeq(s, start(Min(at)), RunEnd(s, start(Min(at)), WordC))

\* re.search(r"#(\d+)", s).group(1)
TagAfterHash(s) ==
    LET at == {i \in 1..(Len(s) - 1) : s[i] = "#" /\ s[i + 1] \in DigitC}
    IN  IF at = {} THEN NoMatch
        ELSE SubSeq(s, Min(at) + 1, RunEnd(s, Min(at) + 1, DigitC))

\* re.search(r"(\w+)\s+tag", s).group(1)
WordBeforeTag(s) ==
    LET ok(i) ==
            LET k == RunEnd(s, i, WordC)
            IN  /\ s[i] \in WordC
                /\ k + 1 <= Len(s)
                /\ s[k + 1] \in SpaceC
                /\ StartsAt(s, SkipSpace(s, k + 1), <<"t","a","g">>)
        at == {i \in 1..Len(s) : ok(i)}
    IN  IF at = {} THEN NoMatch ELSE SubSeq(s, Min(at), RunEnd(s, Min(at), WordC))

\* re.search(r"(?:number|num|no\.?)\s*(\d+)", s).group(1)
TagAfterNumber(s) ==
    LET after(i) ==
            AltEnds(s, i, <<<<"n","u","m","b","e","r">>, <<"n","u","m">>, <<"n","o",".">>>>)
              \cup (IF StartsAt(s, i, <<"n","o">>) THEN {i + 1} ELSE {})
        starts(i) ==
            {j \in {SkipSpace(s, e + 1) : e \in after(i)} : j <= Len(s) /\ s[j] \in DigitC}
        at == {i \in 1..Len(s) : starts(i) # {}}
    IN  IF at = {} THEN NoMatch
        ELSE LET j == Min(starts(Min(at))) IN SubSeq(s, j, RunEnd(s, j, DigitC))

\* the loop over tag_patterns: the first pattern that matches gives the tag
ExtractTag(lower) ==
    LET found == <<TagAfterWord(lower), TagAfterHash(lower),
                   WordBeforeTag(lower), TagAfterNumber(lower)>>
        hits == {k \in 1..4 : found[k] # NoMatch}
    IN  IF hits = {} THEN None ELSE Str(Upper(found[Min(hits)]))

\* re.search(rf"(\w+\s+)?{loc}", s).group(0)
LocationPhrase(s, loc) ==
    LET withWord(i) ==
            LET k == RunEnd(s, i, WordC)
            IN  /\ s[i] \in WordC
                /\ k + 1 <= Len(s)
                /\ s[k + 1] \in SpaceC
                /\ StartsAt(s, SkipSpace(s, k + 1), loc)
        at == {i \in 1..Len(s) : withWord(i) \/ StartsAt(s, i, loc)}
        i0 == Min(at)
    IN  IF at = {} THEN NoMatch
        ELSE IF withWord(i0)
             THEN SubSeq(s, i0, SkipSpace(s, RunEnd(s, i0, WordC) + 1) + Len(loc) - 1)
             ELSE SubSeq(s, i0, i0 + Len(loc) - 1)

\* a variant of the colour list without "red"
Colors_NoRed == <<<<"b","l","u","e">>, <<"g","r","e","e","n">>, <<"y","e","l","l","o","w">>, <<"w","h","i","t","e">>, <<"b","l","a","c","k">>, <<"o","r","a","n","g","e">>>>

Colors == <<<<"r","e","d">>, <<"b","l","u","e">>, <<"g","r","e","e","n">>, <<"y","e","l","l","o","w">>, <<"w","h","i","t","e">>, <<"b","l","a","c","k">>, <<"o","r","a","n","g","e">>>>

NewTag(day) == <<"N","E","W","-">> \o MMDD(day)

_parse_add(txt, lower, day) ==
    LET ct == FirstCategory(CATTLE_TYPES, lower)
        type == IF ct = 0 THEN <<"c","a","l","f">> ELSE CATTLE_TYPES[ct].name
        tag0 == ExtractTag(lower)
        tag1 == IF tag0 = None THEN Str(NewTag(day)) ELSE tag0
        birth == IF Contains(lower, <<"t","o","d","a","y">>) THEN Dt(day)
                 ELSE IF Contains(lower, <<"y","e","s","t","e","r","d","a","y">>) THEN Dt(Yesterday(day))
                 ELSE None
        c == FirstWord(Colors, lower)
        notes == IF c = 0 THEN None
                 ELSE IF Contains(lower, <<"t","a","g">>) THEN Str(Colors[c] \o <<" ","t","a","g">>)
                 ELSE Str(Colors[c])
        tag2 == IF c # 0 /\ tag1 = Str(NewTag(day))
                THEN Str(Upper(Colors[c]) \o <<"-">> \o MMDD(day))
                ELSE tag1
        l == FirstWord(LOCATIONS, lower)
        location == IF l = 0 THEN None
                    ELSE LET g == LocationPhrase(lower, LOCATIONS[l])
                         IN  IF g = NoMatch THEN None ELSE Str(Title(g))
    IN  ParsedCommand("add_cattle",
            [type |-> Str(type), breed |-> Str(<<"A","n","g","u","s">>), birth_date |-> birth,
             tag |-> tag2, location |-> location, notes |-> notes],
            80, txt)

(***************************************************************************)
(* CommandParser._parse_move and CommandParser._parse_event                *)
(***************************************************************************)
\* re.search(r"(?:p1|p2|...)\s*(\d+)", s).group(1) for the alternation `prefixes`
IdAfter(s, prefixes) ==
    LET starts(i) ==
            {j \in {SkipSpace(s, e + 1) : e \in AltEnds(s, i, prefixes)} :
                j <= Len(s) /\ s[j] \in DigitC}
        at == {i \in 1..Len(s) : starts(i) # {}}
    IN  IF at = {} THEN NoMatch
        ELSE LET j == Min(starts(Min(at))) IN SubSeq(s, j, RunEnd(s, j, DigitC))

CattleIdPrefixes == <<<<"c","o","w">>, <<"b","u","l","l">>, <<"c","a","l","f">>, <<"s","t","e","e","r">>, <<"h","e","i","f","e","r">>, <<"#">>>>

PastureNouns == <<<<"p","a","s","t","u","r","e">>, <<"f","i","e","l","d">>, <<"p","e","n">>, <<"b","a","r","n">>, <<"c","o","r","r","a","l">>>>

\* the end of \w+\s+(?:pasture|field|pen|barn|corral) matched at p; 0: no match
NamedPlaceEnd(s, p) ==
    LET k == RunEnd(s, p, WordC)
        q == SkipSpace(s, k + 1)
    IN  IF /\ p <= Len(s)
           /\ s[p] \in WordC
           /\ k + 1 <= Len(s)
           /\ s[k + 1] \in SpaceC
           /\ AltEnds(s, q, PastureNouns) # {}
        THEN Min(AltEnds(s, q, PastureNouns))
        ELSE 0

\* where the group of a location pattern starts, for a search that matched
\* (?:to|in|at)\s+ at i: after (?:the\s+)? when the rest of the pattern matches
\* with it taken, else right after the \s+ when the rest matches there, else 0.
\* The rest is \w+\s+(?:pasture|...) when `named`, and \w+ otherwise
AfterPreposition(s, i, named) ==
    LET rest(p) == IF named THEN NamedPlaceEnd(s, p) # 0
                   ELSE p <= Len(s) /\ s[p] \in WordC
        j == SkipSpace(s, i + 2)
        viaThe == IF StartsAt(s, j, <<"t","h","e">>) /\ j + 3 <= Len(s) /\ s[j + 3] \in SpaceC
                  THEN SkipSpace(s, j + 3) ELSE 0
    IN  IF /\ AltEnds(s, i, <<<<"t","o">>, <<"i","n">>, <<"a","t">>>>) # {}
           /\ i + 2 <= Len(s)
           /\ s[i + 2] \in SpaceC
        THEN IF viaThe # 0 /\ rest(viaThe) THEN viaThe
             ELSE IF rest(j) THEN j
             ELSE 0
        ELSE 0

\* re.search(r"(?:to|in|at)\s+(?:the\s+)?(\w+\s+(?:pasture|field|pen|barn|corral))", s).group(1)
LocNamedPlace(s) ==
    LET g(i) == AfterPreposition(s, i, TRUE)
        at == {i \in 1..Len(s) : g(i) # 0}
    IN  IF at = {} THEN NoMatch
        ELSE SubSeq(s, g(Min(at)), NamedPlaceEnd(s, g(Min(at))))

\* re.search(r"(?:to|in|at)\s+(?:the\s+)?(\w+)", s).group(1)
LocWord(s) ==
    LET g(i) == AfterPreposition(s, i, FALSE)
        at == {i \in 1..Len(s) : g(i) # 0}
    IN  IF at = {} THEN NoMatch
        ELSE SubSeq(s, g(Min(at)), RunEnd(s, g(Min(at)), WordC))

Directions ==
    <<<<"n","o","r","t","h">>, <<"s","o","u","t","h">>, <<"e","a","s","t">>, <<"w","e","s","t">>, <<"b","a","c","k">>, <<"f","r","o","n","t">>, <<"m","a","i","n">>, <<"n","e","w">>>>

\* re.search(r"(north|south|east|west|back|front|main|new)\s+(?:pasture|field)", s).group(1)
LocDirection(s) ==
    LET ends(i) ==
            {e \in AltEnds(s, i, Directions) :
                /\ e + 1 <= Len(s)
                /\ s[e + 1] \in SpaceC
                /\ AltEnds(s, SkipSpace(s, e + 1), <<<<"p","a","s","t","u","r","e">>, <<"f","i","e","l","d">>>>) # {}}
        at == {i \in 1..Len(s) : ends(i) # {}}
    IN  IF at = {} THEN NoMatch ELSE SubSeq(s, Min(at), Min(ends(Min(at))))

\* the loop over loc_patterns: the first pattern that matches gives the location
ExtractLocation(lower) ==
    LET found == <<LocNamedPlace(lower), LocWord(lower), LocDirection(lower)>>
        hits == {k \in 1..3 : found[k] # NoMatch}
    IN  IF hits = {} THEN None ELSE Str(Title(found[Min(hits)]))

\* a variant that scores an incomplete move 0
MoveConfidence_Zero(tag, location) == IF tag # None /\ location # None THEN 90 ELSE 0

\* a variant that scores a move 0.9 when either the tag or the location is found
MoveConfidence_Either(tag, location) == IF tag # None \/ location # None THEN 90 ELSE 60

MoveConfidence(tag, location) == IF tag # None /\ location # None THEN 90 ELSE 60

_parse_move(txt, lower) ==
    LET m == IdAfter(lower, CattleIdPrefixes)
        tag == IF m = NoMatch THEN None ELSE Str(m)
        location == ExtractLocation(lower)
    IN  ParsedCommand("move", [tag |-> tag, location |-> location],
                      MoveConfidence(tag, location), txt)

Conditions ==
    <<<<"p","i","n","k"," ","e","y","e">>, <<"p","i","n","k","e","y","e">>, <<"l","i","m","p">>, <<"l","i","m","p","i","n","g">>, <<"s","i","c","k">>, <<"f","e","v","e","r">>,
      <<"b","l","o","a","t">>, <<"p","r","o","l","a","p","s","e">>, <<"m","a","s","t","i","t","i","s">>, <<"f","o","o","t"," ","r","o","t">>, <<"s","c","o","u","r","s">>, <<"p","n","e","u","m","o","n","i","a">>>>

_parse_event(txt, lower, day) ==
    LET e == FirstCategory(EVENT_TYPES, lower)
        m == IdAfter(lower, CattleIdPrefixes)
        c == FirstWord(Conditions, lower)
    IN  ParsedCommand("health",
            [tag |-> IF m = NoMatch THEN None ELSE Str(m),
             event_type |-> Str(IF e = 0 THEN <<"n","o","t","e">> ELSE EVENT_TYPES[e].name),
             details |-> IF c = 0 THEN Str(txt) ELSE Str(Title(Conditions[c])),
             date |-> Dt(day)],
            85, txt)

(***************************************************************************)
(* CommandParser._parse_sale                                               *)
(***************************************************************************)
\* re.search(r"(\d+)\s*(?:head|steers?|heifers?|cows?|bulls?)", s).group(1)
CountBeforeNoun(s) ==
    LET ok(i) ==
            /\ s[i] \in DigitC
            /\ AltEnds(s, SkipSpace(s, RunEnd(s, i, DigitC) + 1),
                       <<<<"h","e","a","d">>, <<"s","t","e","e","r">>, <<"h","e","i","f","e","r">>, <<"c","o","w">>, <<"b","u","l","l">>>>) # {}
        at == {i \in 1..Len(s) : ok(i)}
    IN  IF at = {} THEN NoMatch ELSE SubSeq(s, Min(at), RunEnd(s, Min(at), DigitC))

\* re.search(r"sold\s+(\d+)", s).group(1)
CountAfterSold(s) ==
    LET start(i) == SkipSpace(s, i + 4)
        ok(i) ==
            /\ StartsAt(s, i, <<"s","o","l","d">>)
            /\ i + 4 <= Len(s)
            /\ s[i + 4] \in SpaceC
            /\ start(i) <= Len(s)
            /\ s[start(i)] \in DigitC
        at == {i \in 1..Len(s) : ok(i)}
    IN  IF at = {} THEN NoMatch
        ELSE SubSeq(s, start(Min(at)), RunEnd(s, start(Min(at)), DigitC))

WeightUnits == <<<<"l","b">>, <<"p","o","u","n","d">>>>

\* re.search(r"\$?([\d.]+)\s*(?:/|\s*per\s*)?(?:lb|pound)", s).group(1)
PriceToken(s) ==
    LET unitAt(q) == AltEnds(s, q, WeightUnits) # {}
        ok(i) ==
            LET q == SkipSpace(s, RunEnd(s, i, NumC) + 1)
            IN  /\ s[i] \in NumC
                /\ \/ q <= Len(s) /\ s[q] = "/" /\ unitAt(q + 1)
                   \/ StartsAt(s, q, <<"p","e","r">>) /\ unitAt(SkipSpace(s, q + 3))
                   \/ unitAt(q)
        at == {i \in 1..Len(s) : ok(i)}
    IN  IF at = {} THEN NoMatch ELSE SubSeq(s, Min(at), RunEnd(s, Min(at), NumC))

\* m = re.search(r"(\d+)\s*(?:lb|lbs|pounds?)|avg\s+(\d+)|average\s+(\d+)", s);
\* m.group(1) or m.group(2) or m.group(3)
WeightToken(s) ==
    LET afterWord(i, w) ==
            IF /\ StartsAt(s, i, w)
               /\ i + Len(w) <= Len(s)
               /\ s[i + Len(w)] \in SpaceC
               /\ SkipSpace(s, i + Len(w)) <= Len(s)
               /\ s[SkipSpace(s, i + Len(w))] \in DigitC
            THEN SkipSpace(s, i + Len(w)) ELSE 0
        start(i) ==
            IF /\ s[i] \in DigitC
               /\ AltEnds(s, SkipSpace(s, RunEnd(s, i, DigitC) + 1), WeightUnits) # {}
            THEN i
            ELSE IF afterWord(i, <<"a","v","g">>) # 0 THEN afterWord(i, <<"a","v","g">>)
            ELSE afterWord(i, <<"a","v","e","r","a","g","e">>)
        at == {i \in 1..Len(s) : start(i) # 0}
    IN  IF at = {} THEN NoMatch
        ELSE SubSeq(s, start(Min(at)), RunEnd(s, start(Min(at)), DigitC))

SaleTypes == <<<<"s","t","e","e","r">>, <<"h","e","i","f","e","r">>, <<"c","o","w">>, <<"b","u","l","l">>, <<"c","a","l","f">>>>

\* the head count: the first pattern, else the second, else the default 1
HeadCount(lower) ==
    IF CountBeforeNoun(lower) # NoMatch THEN ToInt(CountBeforeNoun(lower))
    ELSE IF CountAfterSold(lower) # NoMatch THEN ToInt(CountAfterSold(lower))
    ELSE 1

_parse_sale(txt, lower, day) ==
    LET price == PriceToken(lower)
        weight == WeightToken(lower)
        c == FirstWord(SaleTypes, lower)
    IN  IF price # NoMatch /\ FloatRaises(price) THEN Raise("ValueError")
        ELSE ParsedCommand("sale",
                [head_count |-> Num(HeadCount(lower)),
                 price_per_lb |-> IF price = NoMatch THEN None ELSE ToFloat(price),
                 avg_weight |-> IF weight = NoMatch THEN None ELSE ToFloat(weight),
                 cattle_type |-> Str(IF c = 0 THEN <<"s","t","e","e","r">> ELSE SaleTypes[c]),
                 buyer |-> None,
                 date |-> Dt(day)],
                90, txt)

(***************************************************************************)
(* CommandParser._parse_query                                              *)
(***************************************************************************)
\* for ctype in self.CATTLE_TYPES: if ctype in lower: the keys of the dict
TypeFilterWords(table) == [k \in 1..Len(table) |-> table[k].name]

\* the filter type of a count or list query: {} or {"type": ctype}
TypeFilter(lower) ==
    LET k == FirstWord(TypeFilterWords(CATTLE_TYPES), lower)
    IN  IF k = 0 THEN EmptyDict ELSE [type |-> Str(CATTLE_TYPES[k].name)]

SinceFilter(lower, day) ==
    IF Contains(lower, <<"t","h","i","s"," ","m","o","n","t","h">>) \/ Contains(lower, <<"m","o","n","t","h">>)
    THEN [since |-> Dt(FirstOfMonth(day))]
    ELSE IF Contains(lower, <<"t","h","i","s"," ","y","e","a","r">>) \/ Contains(lower, <<"y","e","a","r">>) \/ Contains(lower, <<"y","t","d">>)
    THEN [since |-> Dt(FirstOfYear(day))]
    ELSE IF Contains(lower, <<"t","o","d","a","y">>) THEN [since |-> Dt(day)]
    ELSE EmptyDict

QueryIdPrefixes == <<<<"c","o","w">>, <<"b","u","l","l">>, <<"c","a","l","f">>, <<"i","s">>, <<"#">>>>

\* a variant that tests the count words before "where"
QueryType_CountFirst(lower) ==
    IF AnyIn(<<<<"h","o","w"," ","m","a","n","y">>, <<"c","o","u","n","t">>, <<"t","o","t","a","l">>>>, lower) THEN <<"c","o","u","n","t">>
    ELSE IF Contains(lower, <<"w","h","e","r","e">>) THEN <<"l","o","c","a","t","i","o","n">>
    ELSE IF Contains(lower, <<"l","i","s","t">>) \/ Contains(lower, <<"s","h","o","w">>) \/ Contains(lower, <<"a","l","l">>)
    THEN <<"l","i","s","t">>
    ELSE <<"c","o","u","n","t">>

QueryType(lower) ==
    IF Contains(lower, <<"w","h","e","r","e">>) THEN <<"l","o","c","a","t","i","o","n">>
    ELSE IF AnyIn(<<<<"h","o","w"," ","m","a","n","y">>, <<"c","o","u","n","t">>, <<"t","o","t","a","l">>>>, lower) THEN <<"c","o","u","n","t">>
    ELSE IF Contains(lower, <<"l","i","s","t">>) \/ Contains(lower, <<"s","h","o","w">>) \/ Contains(lower, <<"a","l","l">>)
    THEN <<"l","i","s","t">>
    ELSE <<"c","o","u","n","t">>

_parse_query(txt, lower, day) ==
    LET m == IdAfter(lower, QueryIdPrefixes)
        filter ==
            IF Contains(lower, <<"w","h","e","r","e">>)
            THEN IF m = NoMatch THEN EmptyDict ELSE [tag |-> Str(m)]
            ELSE IF AnyIn(<<<<"h","o","w"," ","m","a","n","y">>, <<"c","o","u","n","t">>, <<"t","o","t","a","l">>>>, lower)
            THEN TypeFilter(lower) @@ SinceFilter(lower, day)
            ELSE IF Contains(lower, <<"l","i","s","t">>) \/ Contains(lower, <<"s","h","o","w">>) \/ Contains(lower, <<"a","l","l">>)
            THEN TypeFilter(lower)
            ELSE EmptyDict
    IN  ParsedCommand("query",
            [query_type |-> Str(QueryType(lower)), filter |-> Dict(filter)],
            85, txt)

(***************************************************************************)
(* CommandParser._infer_command and CommandParser.parse                    *)
(***************************************************************************)
DistressWords == <<<<"s","i","c","k">>, <<"l","i","m","p","i","n","g">>, <<"d","o","w","n">>, <<"p","r","o","b","l","e","m">>>>

\* re.search(r"^(\d+)\s+(.+)$", txt): <<group(1), group(2)>>, or NoMatch
TagThenRest(txt) ==
    LET k == RunEnd(txt, 1, DigitC)
        q == SkipSpace(txt, k + 1)
    IN  IF /\ k >= 1
           /\ k + 1 <= Len(txt)
           /\ txt[k + 1] \in SpaceC
           /\ q <= Len(txt)
           /\ \A j \in q..Len(txt) : txt[j] # "\n"
        THEN <<SubSeq(txt, 1, k), SubSeq(txt, q, Len(txt))>>
        ELSE NoMatch

\* a variant that keeps the remainder as it was typed
_infer_command_AsTyped(txt, lower) ==
    LET m == TagThenRest(txt)
    IN  IF m # NoMatch /\ AnyIn(DistressWords, Lower(m[2]))
        THEN ParsedCommand("health",
                [tag |-> Str(m[1]), event_type |-> Str(<<"n","o","t","e">>), details |-> Str(m[2])],
                70, txt)
        ELSE ParsedCommand("unknown", [raw |-> Str(txt)], 0, txt)

_infer_command(txt, lower) ==
    LET m == TagThenRest(txt)
    IN  IF m # NoMatch /\ AnyIn(DistressWords, Lower(m[2]))
        THEN ParsedCommand("health",
                [tag |-> Str(m[1]), event_type |-> Str(<<"n","o","t","e">>), details |-> Str(Lower(m[2]))],
                70, txt)
        ELSE ParsedCommand("unknown", [raw |-> Str(txt)], 0, txt)

\* a variant of the help literals without the one that holds a query trigger
HelpLiterals_Short == {<<"h","e","l","p">>, <<"?">>, <<"c","o","m","m","a","n","d","s">>}
HelpLiterals == {<<"h","e","l","p">>, <<"?">>, <<"c","o","m","m","a","n","d","s">>, <<"w","h","a","t"," ","c","a","n"," ","y","o","u"," ","d","o">>}
StatusLiterals == {<<"s","t","a","t","u","s">>, <<"o","v","e","r","v","i","e","w">>, <<"s","u","m","m","a","r","y">>, <<"s","t","a","t","s">>}
SaleWords == <<<<"s","o","l","d">>, <<"s","a","l","e">>, <<"s","e","l","l">>>>
MoveWords == <<<<"m","o","v","e","d">>, <<"m","o","v","e">>, <<"m","o","v","i","n","g">>, <<"w","e","n","t">>, <<"p","u","t">>, <<"i","n"," ","t","h","e">>, <<"t","o"," ","t","h","e">>>>
AddWords == <<<<"a","d","d">>, <<"n","e","w">>, <<"b","o","r","n">>, <<"b","o","u","g","h","t">>, <<"g","o","t">>>>

\* the checks of parse, each on the stripped, lower-cased text
IsHelp(lower) == lower \in HelpLiterals
IsStatus(lower) == lower \in StatusLiterals
IsQuery(lower) == AnyIn(QUERY_WORDS, lower)
\* a variant whose sale check leaves out "sold"
IsSale_NoSold(lower) == AnyIn(<<<<"s","a","l","e">>, <<"s","e","l","l">>>>, lower)
IsSale(lower) == AnyIn(SaleWords, lower)
IsEvent(lower) == \E k \in 1..Len(EVENT_TYPES) : AnyIn(EVENT_TYPES[k].words, lower)
IsMove(lower) == AnyIn(MoveWords, lower)
IsAdd(lower) == AnyIn(AddWords, lower)

\* a variant that makes the health check before the sale check
Branch_HealthBeforeSale(lower) ==
    IF lower \in HelpLiterals THEN "help"
    ELSE IF lower \in StatusLiterals THEN "status"
    ELSE IF AnyIn(QUERY_WORDS, lower) THEN "query"
    ELSE IF \E k \in 1..Len(EVENT_TYPES) : AnyIn(EVENT_TYPES[k].words, lower) THEN "health"
    ELSE IF AnyIn(SaleWords, lower) THEN "sale"
    ELSE IF AnyIn(MoveWords, lower) THEN "move"
    ELSE IF AnyIn(AddWords, lower) THEN "add_cattle"
    ELSE "infer"

\* the branch parse takes: the first check that matches
Branch(lower) ==
    IF IsHelp(lower) THEN "help"
    ELSE IF IsStatus(lower) THEN "status"
    ELSE IF IsQuery(lower) THEN "query"
    ELSE IF IsSale(lower) THEN "sale"
    ELSE IF IsEvent(lower) THEN "health"
    ELSE IF IsMove(lower) THEN "move"
    ELSE IF IsAdd(lower) THEN "add_cattle"
    ELSE "infer"

parse(raw, day) ==
    LET txt == Strip(raw)
        lower == Lower(txt)
        b == Branch(lower)
    IN  CASE b = "help" -> ParsedCommand("help", EmptyDict, 100, txt)
          [] b = "status" -> ParsedCommand("status", EmptyDict, 100, txt)
          [] b = "query" -> _parse_query(txt, lower, day)
          [] b = "sale" -> _parse_sale(txt, lower, day)
          [] b = "health" -> _parse_event(txt, lower, day)
          [] b = "move" -> _parse_move(txt, lower)
          [] b = "add_cattle" -> _parse_add(txt, lower, day)
          [] OTHER -> _infer_command(txt, lower)

(***************************************************************************)
(* generate_response.  A reply is the template the code fills and the      *)
(* values it puts in it; "{amt:,.0f}" shows amt rounded to a whole number. *)
(***************************************************************************)
\* dict.get(key, default)
Get(d, key, default) == IF key \in DOMAIN d THEN d[key] ELSE default

\* x or 0, for a float slot: the float as [m, e], None and 0.0 as zero
OrZero(x) == IF x = None THEN Flt(0, 0) ELSE x

\* a variant that cuts the fraction off
RoundDown(m, e) == m \div Pow10(e)

\* round(m / 10^e) to the nearest whole number, a tie to the even one, as
\* format(amt, ",.0f") does
RoundHalfEven(m, e) ==
    LET p == Pow10(e)
        q == m \div p
        r == m % p
    IN  IF 2 * r < p THEN q
        ELSE IF 2 * r > p THEN q + 1
        ELSE IF q % 2 = 0 THEN q ELSE q + 1

\* price_per_lb * avg_weight * head_count, as the exact decimal [m, e]
SaleAmount(p) ==
    LET price == OrZero(Get(p, "price_per_lb", Flt(0, 0)))
        weight == OrZero(Get(p, "avg_weight", Flt(0, 0)))
        head == Get(p, "head_count", Num(1))
    IN  Normal(price.m * weight.m * head.v, price.e + weight.e)

\* the "${amt:,.0f}" of the sale confirmation
ShownAmount(p) == RoundHalfEven(SaleAmount(p).m, SaleAmount(p).e)

generate_response(cmd, res) ==
    LET p == cmd.params
        ct == cmd.command_type
        qt == Get(p, "query_type", None)
    IN  CASE ct = "help" -> [template |-> "FarmOps Commands"]
          [] ct = "status" ->
                [template |-> "Farm Status",
                 total_head |-> Get(res, "total_head", 0),
                 calves_ytd |-> Get(res, "calves_ytd", 0),
                 sales_ytd_head |-> Get(res, "sales_ytd_head", 0),
                 sales_ytd_amount |->
                    LET a == Get(res, "sales_ytd_amount", Flt(0, 0))
                    IN  RoundHalfEven(a.m, a.e)]
          [] ct = "add_cattle" ->
                [template |-> "Added",
                 type |-> Get(p, "type", Str(<<"c","a","t","t","l","e">>)),
                 tag |-> Get(res, "tag", Str(<<"N","/","A">>))]
          [] ct = "move" ->
                [template |-> "Moved",
                 tag |-> Get(p, "tag", None),
                 location |-> Get(p, "location", None)]
          [] ct = "health" ->
                [template |-> "Logged",
                 event_type |-> Get(p, "event_type", None),
                 tag |-> Get(p, "tag", None),
                 details |-> Get(p, "details", None)]
          [] ct = "sale" ->
                [template |-> "Recorded sale",
                 head_count |-> Get(p, "head_count", None),
                 cattle_type |-> Get(p, "cattle_type", None),
                 amt |-> ShownAmount(p)]
          [] ct = "query" /\ qt = Str(<<"c","o","u","n","t">>) ->
                [template |-> "Count",
                 count |-> Get(res, "count", 0),
                 filter_desc |-> Get(Get(p, "filter", Dict(EmptyDict)).v, "type", Str(<<"c","a","t","t","l","e">>))]
          [] ct = "query" /\ qt = Str(<<"l","o","c","a","t","i","o","n">>) ->
                [template |-> "is at",
                 tag |-> Get(p.filter.v, "tag", None),
                 location |-> Get(res, "location", Str(<<"u","n","k","n","o","w","n">>))]
          [] ct = "query" /\ qt = Str(<<"l","i","s","t">>) ->
                [template |-> "Found",
                 count |-> Len(Get(res, "cattle", << >>))]
          [] OTHER -> [template |-> "Command received"]

(***************************************************************************)
(* CattleDB (app/database.py).  A table is the sequence of its rows in     *)
(* rowid order, a row's id its index; created_at and updated_at are left   *)
(* out.  A call either raises, and its connection is closed without a      *)
(* commit, or commits what it wrote.                                       *)
(***************************************************************************)
DefaultLocations ==
    << [name |-> <<"N","o","r","t","h"," ","P","a","s","t","u","r","e">>, pasture_type |-> <<"g","r","a","z","i","n","g">>],
       [name |-> <<"S","o","u","t","h"," ","P","a","s","t","u","r","e">>, pasture_type |-> <<"g","r","a","z","i","n","g">>],
       [name |-> <<"H","a","y","f","i","e","l","d">>, pasture_type |-> <<"h","a","y">>],
       [name |-> <<"C","o","r","r","a","l">>, pasture_type |-> <<"h","o","l","d","i","n","g">>],
       [name |-> <<"B","a","r","n">>, pasture_type |-> <<"s","h","e","l","t","e","r">>],
       [name |-> <<"W","o","o","d","s">>, pasture_type |-> <<"w","o","o","d","e","d">>] >>

\* s LIKE '%w%' of SQLite: letters compare without case, _ stands for any character
LikeContains(s, w) ==
    \E i \in 1..(Len(s) - Len(w) + 1) :
        \A j \in 1..Len(w) : w[j] = "_" \/ LowerChar(s[i + j - 1]) = LowerChar(w[j])

\* str(x) inside an f-string, for a str or None
Fmt(x) == IF x = None THEN <<"N","o","n","e">> ELSE x.v

\* SELECT id FROM locations WHERE LOWER(name) LIKE '%<location.lower()>%', fetchone(); 0: no row
FindLocation(location) ==
    LET hits == {k \in 1..Len(locations) :
                    LikeContains(Lower(locations[k].name), Lower(location))}
    IN  IF hits = {} THEN 0 ELSE Min(hits)

\* WHERE tag = ? OR tag LIKE '%<tag>%': the ids of the rows
CattleWithTag(tag) ==
    {k \in 1..Len(cattle) :
        \/ tag # None /\ cattle[k].tag = tag
        \/ LikeContains(cattle[k].tag.v, Fmt(tag))}

\* what a CattleDB call gives back: the value it returns and the tables it
\* committed, or the exception it raised with the tables as they were
Returned(ret, c, l, e, s) == [ret |-> ret, cattle |-> c, locations |-> l, events |-> e, sales |-> s]
Unchanged(ret) == Returned(ret, cattle, locations, events, sales)

\* add_cattle on a table whose tag column is not UNIQUE
add_cattle_NoUnique(tag, cattle_type, breed, birth_date, location, notes) ==
    LET loc == IF location = None THEN 0 ELSE FindLocation(location.v)
        row == [id |-> Len(cattle) + 1, tag |-> tag, type |-> cattle_type, breed |-> breed,
                birth_date |-> birth_date, status |-> Str(<<"a","c","t","i","v","e">>),
                location_id |-> loc, notes |-> notes]
    IN  Returned(row, Append(cattle, row), locations, events, sales)

\* the INSERT fails on "tag TEXT UNIQUE" when a row has the tag already (NULL
\* tags never collide); nothing is committed then
add_cattle(tag, cattle_type, breed, birth_date, location, notes) ==
    LET loc == IF location = None THEN 0 ELSE FindLocation(location.v)
        row == [id |-> Len(cattle) + 1, tag |-> tag, type |-> cattle_type, breed |-> breed,
                birth_date |-> birth_date, status |-> Str(<<"a","c","t","i","v","e">>),
                location_id |-> loc, notes |-> notes]
    IN  IF tag # None /\ \E k \in 1..Len(cattle) : cattle[k].tag = tag
        THEN Raise("IntegrityError")
        ELSE Returned(row, Append(cattle, row), locations, events, sales)

\* the location_name of the LEFT JOIN
LocationName(id) == IF id = 0 THEN None ELSE Str(locations[id].name)

get_cattle(tag) ==
    LET hits == CattleWithTag(tag)
    IN  IF tag = None \/ hits = {} THEN Unchanged(None)
        ELSE Unchanged([tag |-> cattle[Min(hits)].tag,
                        location_name |-> LocationName(cattle[Min(hits)].location_id)])

update_location(tag, location) ==
    LET found == FindLocation(location.v)
        moved == [k \in 1..Len(cattle) |->
                    IF k \in CattleWithTag(tag)
                    THEN [cattle[k] EXCEPT !.location_id = found]
                    ELSE cattle[k]]
    IN  IF location = None THEN Raise("AttributeError")
        \* a new location: the row of "SELECT last_insert_rowid()" is a Row, not a
        \* tuple, and has no column "id"
        ELSE IF found = 0 THEN Raise("IndexError")
        ELSE Returned(CattleWithTag(tag) # {}, moved, locations, events, sales)

add_event(cattle_tag, event_type, details, event_date, day) ==
    LET hits == CattleWithTag(cattle_tag)
        when == IF event_date = None THEN Dt(day) ELSE event_date
        row == [cattle_id |-> IF hits = {} THEN 0 ELSE Min(hits), event_type |-> event_type,
                event_date |-> when, details |-> details, cost |-> None]
    IN  Returned([cattle_tag |-> cattle_tag, event_type |-> event_type,
                  details |-> details, date |-> when],
                 cattle, locations, Append(events, row), sales)

\* a * b for floats, b an int or a float
Times(a, b) == IF b.t = "int" THEN Normal(a.m * b.v, a.e) ELSE Normal(a.m * b.m, a.e + b.e)
\* bool(x) for a float or None
Truthy(x) == x # None /\ x.m # 0

\* a variant that leaves head_count out of the total
add_sale_PerHead(head_count, price_per_lb, avg_weight, cattle_type, buyer, sale_date, day) ==
    LET when == IF sale_date = None THEN Dt(day) ELSE sale_date
        total_weight == IF Truthy(avg_weight) THEN Times(avg_weight, head_count) ELSE None
        total_amount == IF Truthy(price_per_lb) /\ Truthy(total_weight)
                        THEN Times(price_per_lb, avg_weight) ELSE None
        row == [sale_date |-> when, head_count |-> head_count, total_weight |-> total_weight,
                price_per_lb |-> price_per_lb, total_amount |-> total_amount,
                buyer |-> buyer, cattle_type |-> cattle_type, notes |-> None]
    IN  Returned([head_count |-> head_count, total_amount |-> total_amount, date |-> when],
                 cattle, locations, events, Append(sales, row))

add_sale(head_count, price_per_lb, avg_weight, cattle_type, buyer, sale_date, day) ==
    LET when == IF sale_date = None THEN Dt(day) ELSE sale_date
        total_weight == IF Truthy(avg_weight) THEN Times(avg_weight, head_count) ELSE None
        total_amount == IF Truthy(price_per_lb) /\ Truthy(total_weight)
                        THEN Times(price_per_lb, total_weight) ELSE None
        row == [sale_date |-> when, head_count |-> head_count, total_weight |-> total_weight,
                price_per_lb |-> price_per_lb, total_amount |-> total_amount,
                buyer |-> buyer, cattle_type |-> cattle_type, notes |-> None]
    IN  Returned([head_count |-> head_count, total_amount |-> total_amount, date |-> when],
                 cattle, locations, events, Append(sales, row))

\* a >= b for dates
DateGE(a, b) ==
    \/ a.y > b.y
    \/ a.y = b.y /\ a.m > b.m
    \/ a.y = b.y /\ a.m = b.m /\ a.d >= b.d

count_cattle(cattle_type, since_date) ==
    Cardinality({k \in 1..Len(cattle) :
        /\ cattle[k].status = Str(<<"a","c","t","i","v","e">>)
        /\ cattle_type # None => Lower(cattle[k].type.v) = Lower(cattle_type.v)
        /\ since_date # None =>
              cattle[k].birth_date # None /\ DateGE(cattle[k].birth_date, since_date)})

\* SELECT ... WHERE c.status = 'active' ORDER BY c.tag: the number of rows is all
\* that a reply shows
get_all_cattle == SelectSeq(cattle, LAMBDA row : row.status = Str(<<"a","c","t","i","v","e">>))

\* a + b for floats
Plus(a, b) ==
    LET e == IF a.e > b.e THEN a.e ELSE b.e
    IN  Normal(a.m * Pow10(e - a.e) + b.m * Pow10(e - b.e), e)

RECURSIVE SumSales(_, _)
\* SUM(head_count), and SUM(total_amount) over the rows whose total_amount is not NULL
SumSales(rows, field) ==
    IF rows = << >> THEN (IF field = "head_count" THEN Num(0) ELSE Flt(0, 0))
    ELSE LET rest == SumSales(Tail(rows), field)
             x == Head(rows)[field]
         IN  IF field = "head_count" THEN Num(rest.v + x.v)
             ELSE IF x = None THEN rest ELSE Plus(rest, x)

\* the keys of get_stats that a reply reads
get_stats(day) ==
    LET ytd == SelectSeq(sales, LAMBDA row : DateGE(row.sale_date, Dt(FirstOfYear(day))))
    IN  [total_head |-> count_cattle(None, None),
         calves_ytd |-> Cardinality({k \in 1..Len(cattle) :
                            /\ cattle[k].type = Str(<<"c","a","l","f">>)
                            /\ cattle[k].birth_date # None
                            /\ DateGE(cattle[k].birth_date, Dt(FirstOfYear(day)))}),
         sales_ytd_head |-> SumSales(ytd, "head_count").v,
         sales_ytd_amount |-> SumSales(ytd, "total_amount")]

log_message(phone, direction, body, action) ==
    Append(messages, [phone_number |-> phone, direction |-> direction,
                      body |-> body, parsed_action |-> action])

(***************************************************************************)
(* The messages the checks send.                                           *)
(***************************************************************************)
MaxWords == 2

\* words that trigger the checks of parse, alone and in combination
Vocabulary ==
    {<<"h","e","l","p">>, <<"s","t","a","t","u","s">>, <<"w","h","a","t">>, <<"t","o","t","a","l">>, <<"s","o","l","d">>, <<"d","e","a","d">>, <<"b","o","r","n">>,
     <<"m","o","v","e","d">>, <<"a","d","d">>, <<"4","2">>, <<"s","i","c","k">>, <<"c","o","w">>, <<".","l","b">>, <<"r","e","d">>}

RECURSIVE TextsOfLen(_)
TextsOfLen(n) ==
    IF n = 1 THEN Vocabulary
    ELSE {t \o <<" ">> \o w : t \in TextsOfLen(n - 1), w \in Vocabulary}

WordTexts == UNION {TextsOfLen(n) : n \in 1..MaxWords}

\* the examples of the help text and of the documentation, and variants of them
ScenarioTexts ==
    {<<"a","d","d"," ","c","a","l","f"," ","b","o","r","n"," ","t","o","d","a","y"," ","r","e","d"," ","t","a","g">>,
     <<"c","o","w"," ","4","2"," ","m","o","v","e","d"," ","t","o"," ","n","o","r","t","h"," ","p","a","s","t","u","r","e">>,
     <<"h","o","w"," ","m","a","n","y"," ","c","a","l","v","e","s"," ","t","h","i","s"," ","m","o","n","t","h">>,
     <<"v","e","t"," ","v","i","s","i","t"," ","c","o","w"," ","1","5"," ","p","i","n","k"," ","e","y","e">>,
     <<"s","o","l","d"," ","5"," ","s","t","e","e","r","s"," ","$","1",".","8","5","/","l","b"," ","a","v","g"," ","1","1","0","0">>,
     <<"x","y","z"," ","n","o","n","s","e","n","s","e">>,
     <<"s","o","l","d"," ","3"," ","s","i","c","k"," ","c","a","l","v","e","s">>,
     <<"s","o","l","d"," ","3"," ","c","a","l","v","e","s"," ","t","h","a","t"," ","g","o","t"," ","s","i","c","k">>,
     <<"s","h","o","w"," ","s","o","l","d"," ","d","e","a","d"," ","c","o","w","s">>,
     <<"w","h","a","t"," ","c","a","n"," ","y","o","u"," ","d","o">>,
     <<"?">>,
     <<"c","o","m","m","a","n","d","s">>,
     <<" ","H","e","l","p"," ">>,
     <<"S","T","A","T","U","S">>,
     <<"o","v","e","r","v","i","e","w">>,
     <<"S","o","l","d"," ","2"," ","H","e","i","f","e","r","s"," ","1",".","8",".","5"," ","l","b">>,
     <<"s","o","l","d"," ","5"," ","s","t","e","e","r","s"," ","1",".","8","5"," ","p","e","r"," ","p","o","u","n","d"," ","9","0","0"," ","l","b","s">>,
     <<"w","h","e","r","e"," ","i","s"," ","c","o","w"," ","4","2">>,
     <<"w","h","e","r","e"," ","i","s"," ","#","7">>,
     <<"h","o","w"," ","m","a","n","y"," ","c","a","l","f"," ","t","h","i","s"," ","y","e","a","r">>,
     <<"c","o","u","n","t"," ","b","u","l","l","s"," ","t","o","d","a","y">>,
     <<"l","i","s","t"," ","a","l","l"," ","h","e","i","f","e","r">>,
     <<"s","t","a","t","u","s"," ","o","f"," ","h","e","r","d">>,
     <<"4","2"," ","s","i","c","k">>,
     <<"4","2"," ","l","i","m","p","i","n","g"," ","b","a","d","l","y">>,
     <<"1","7"," ","D","O","W","N"," ","i","n"," ","t","h","e"," ","m","u","d">>,
     <<"4","2"," ","g","r","a","z","i","n","g">>,
     <<"m","o","v","e"," ","c","o","w"," ","4","2">>,
     <<"m","o","v","e","d"," ","t","o"," ","b","a","r","n">>,
     <<"M","o","v","e"," ","B","u","l","l"," ","7"," ","t","o"," ","t","h","e"," ","S","o","u","t","h"," ","P","a","s","t","u","r","e">>,
     <<"4","2"," ","L","i","m","p","i","n","g"," ","B","a","d","l","y">>,
     <<"7"," ","h","a","s"," ","a"," ","P","r","o","b","l","e","m">>,
     <<"w","h","e","r","e"," ","i","s"," ","t","h","e"," ","t","o","t","a","l"," ","c","o","u","n","t">>,
     <<"s","h","o","w"," ","t","o","t","a","l">>,
     <<"w","h","a","t"," ","a","l","l">>,
     <<"n","e","w"," ","r","e","d"," ","c","a","l","f">>,
     <<"b","o","u","g","h","t"," ","r","e","d"," ","h","e","i","f","e","r"," ","n","o"," ","1","2">>,
     <<" ","9"," ","P","r","o","b","l","e","m"," ">>,
     <<" ","x","y","z"," ">>,
     <<"g","o","t"," ","n","e","w"," ","c","a","l","f"," ","t","a","g"," ","1","2"," ","y","e","s","t","e","r","d","a","y"," ","i","n"," ","t","h","e"," ","b","a","r","n">>,
     <<"n","e","w"," ","h","e","i","f","e","r"," ","#","3","1"," ","b","l","u","e">>,
     <<"b","o","u","g","h","t"," ","b","u","l","l"," ","n","u","m","b","e","r"," ","9"," ","b","l","a","c","k"," ","n","o","r","t","h"," ","p","a","s","t","u","r","e">>,
     <<"n","e","w"," ","c","a","l","f">>,
     <<"p","u","t"," ","s","t","e","e","r"," ","8"," ","i","n"," ","t","h","e"," ","p","e","n">>,
     <<"m","o","v","i","n","g"," ","h","e","i","f","e","r"," ","3"," ","n","o","r","t","h"," ","f","i","e","l","d">>,
     <<"w","e","n","t"," ","t","o"," ","t","h","e"," ","p","a","s","t","u","r","e">>,
     <<"m","o","v","e"," ","c","o","w">>,
     <<"b","u","l","l"," ","4"," ","d","i","e","d">>,
     <<"c","o","w"," ","9"," ","c","a","l","v","e","d">>,
     <<"g","a","v","e"," ","s","h","o","t"," ","h","e","i","f","e","r"," ","2"," ","f","e","v","e","r">>,
     <<"n","o","t","e"," ","c","o","w"," ","3"," ","l","i","m","p","i","n","g">>}

\* sale messages: every combination of a head count, a price and a weight phrase
SaleHeads == {<< >>, <<" ","3"," ","h","e","a","d">>, <<" ","5"," ","s","t","e","e","r","s">>, <<" ","2">>}
SalePrices == {<< >>, <<" ","$","1",".","8","5","/","l","b">>, <<" ","2"," ","p","e","r"," ","l","b">>, <<" ",".","5","/","l","b">>, <<" ","1",".","8",".","5"," ","l","b">>}
SaleWeights == {<< >>, <<" ","a","v","g"," ","1","1","0","0">>, <<" ","a","v","g"," ","3">>, <<" ","a","v","e","r","a","g","e"," ","1">>, <<" ","7","0","0"," ","l","b","s">>}
SaleTexts == {<<"s","o","l","d">> \o h \o p \o w : h \in SaleHeads, p \in SalePrices, w \in SaleWeights}

Texts == WordTexts \cup ScenarioTexts \cup SaleTexts

Day(y, m, d) == [y |-> y, m |-> m, d |-> d]
Days == {Day(2026, 11, 2), Day(2024, 3, 1)}

\* the messages sent to the handlers
HandlerTexts ==
    {<<"n","e","w"," ","c","a","l","f">>,
     <<"a","d","d"," ","c","a","l","f"," ","b","o","r","n"," ","t","o","d","a","y"," ","r","e","d"," ","t","a","g">>,
     <<"c","o","w"," ","4","2"," ","m","o","v","e","d"," ","t","o"," ","n","o","r","t","h"," ","p","a","s","t","u","r","e">>,
     <<"m","o","v","e"," ","c","o","w">>,
     <<"p","u","t"," ","s","t","e","e","r"," ","8"," ","i","n"," ","t","h","e"," ","p","e","n">>,
     <<"s","o","l","d"," ","5"," ","s","t","e","e","r","s"," ","$","1",".","8","5","/","l","b"," ","a","v","g"," ","1","1","0","0">>,
     <<"S","o","l","d"," ","2"," ","H","e","i","f","e","r","s"," ","1",".","8",".","5"," ","l","b">>,
     <<"h","o","w"," ","m","a","n","y"," ","c","a","l","v","e","s"," ","t","h","i","s"," ","m","o","n","t","h">>,
     <<"s","t","a","t","u","s">>,
     <<"x","y","z"," ","n","o","n","s","e","n","s","e">>,
     <<"n","e","w"," ","c","a","l","f"," ","t","a","g"," ","4","2"," ","b","a","r","n">>,
     <<"v","e","t"," ","v","i","s","i","t"," ","c","o","w"," ","1","5"," ","p","i","n","k"," ","e","y","e">>,
     <<"w","h","e","r","e"," ","i","s"," ","c","o","w"," ","4","2">>,
     <<"l","i","s","t"," ","a","l","l"," ","c","o","w","s">>,
     <<"s","o","l","d"," ",".","5","/","l","b"," ","a","v","g"," ","3">>}

\* the sale messages of a run of sales
SaleRequestTexts ==
    {<<"s","o","l","d"," ","5"," ","s","t","e","e","r","s"," ","$","1",".","8","5","/","l","b"," ","a","v","g"," ","1","1","0","0">>,
     <<"s","o","l","d"," ",".","5","/","l","b"," ","a","v","g"," ","3">>,
     <<"s","o","l","d"," ","3"," ","c","a","l","v","e","s">>,
     <<"s","o","l","d"," ","0"," ","s","t","e","e","r","s"," ","2","/","l","b"," ","a","v","g"," ","1","0","0">>,
     <<"s","o","l","d"," ","2"," ","c","o","w","s"," ","1",".","5"," ","p","e","r"," ","p","o","u","n","d"," ","9","0","0"," ","l","b","s">>,
     <<"s","o","l","d"," ","1","0"," ","h","e","a","d"," ","0","/","l","b"," ","a","v","g"," ","5","0","0">>,
     <<"S","o","l","d"," ","2"," ","H","e","i","f","e","r","s"," ","1",".","8",".","5"," ","l","b">>}

\* the messages of a run of additions: some with no tag and no colour, some
\* with a colour, some with a tag
AddRequestTexts ==
    {<<"n","e","w"," ","c","a","l","f">>,
     <<"a","d","d"," ","a"," ","c","o","w">>,
     <<"n","e","w"," ","r","e","d"," ","c","a","l","f">>,
     <<"b","o","u","g","h","t"," ","r","e","d"," ","h","e","i","f","e","r">>,
     <<"n","e","w"," ","c","a","l","f"," ","t","a","g"," ","4","2">>,
     <<"a","d","d"," ","b","u","l","l"," ","t","a","g"," ","4","2"," ","b","a","r","n">>,
     <<"n","e","w"," ","c","a","l","f"," ","T","A","G"," ","a","7">>,
     <<"n","e","w"," ","h","e","i","f","e","r"," ","#","7">>}

\* what a caller says to the voice line; << >> is no speech at all
VoiceTexts ==
    {<< >>,
     <<"n","e","w"," ","c","a","l","f"," ","t","a","g"," ","4","2"," ","b","a","r","n">>,
     <<"c","o","w"," ","4","2"," ","m","o","v","e","d"," ","t","o"," ","n","o","r","t","h"," ","p","a","s","t","u","r","e">>,
     <<"w","h","e","r","e"," ","i","s"," ","c","o","w"," ","4","2">>,
     <<"l","i","s","t"," ","a","l","l"," ","c","o","w","s">>,
     <<"S","o","l","d"," ","2"," ","H","e","i","f","e","r","s"," ","1",".","8",".","5"," ","l","b">>,
     <<"s","o","l","d"," ","5"," ","s","t","e","e","r","s"," ","$","1",".","8","5","/","l","b"," ","a","v","g"," ","1","1","0","0">>}

Senders == {"+15550001", "+15550002"}
Configurations == {<< >>, <<"+15550001">>}
MaxRequests == 2

\* the texts of a sequence of parse calls, and its length
RepeatTexts ==
    {<<"n","e","w"," ","c","a","l","f">>,
     <<"n","e","w"," ","c","a","l","f"," ","t","a","g"," ","4","2"," ","b","a","r","n">>,
     <<"c","o","w"," ","4","2"," ","m","o","v","e","d"," ","t","o"," ","n","o","r","t","h"," ","p","a","s","t","u","r","e">>,
     <<"v","e","t"," ","v","i","s","i","t"," ","c","o","w"," ","1","5"," ","p","i","n","k"," ","e","y","e">>,
     <<"s","o","l","d"," ","5"," ","s","t","e","e","r","s"," ","$","1",".","8","5","/","l","b"," ","a","v","g"," ","1","1","0","0">>,
     <<"S","o","l","d"," ","2"," ","H","e","i","f","e","r","s"," ","1",".","8",".","5"," ","l","b">>,
     <<"h","o","w"," ","m","a","n","y"," ","c","a","l","v","e","s"," ","t","h","i","s"," ","m","o","n","t","h">>,
     <<"s","t","a","t","u","s">>,
     <<"x","y","z"," ","n","o","n","s","e","n","s","e">>,
     <<"4","2"," ","s","i","c","k">>,
     <<"s","h","o","w"," ","s","o","l","d"," ","d","e","a","d"," ","c","o","w","s">>}
MaxCalls == 2

\* the tasks that use the parser at the same time, and their texts
NumTasks == 2
Tasks == 1..NumTasks
ConcurrentTexts ==
    {<<"s","h","o","w"," ","s","o","l","d"," ","d","e","a","d"," ","c","o","w","s">>, <<"4","2"," ","s","i","c","k">>, <<"x","y","z"," ","n","o","n","s","e","n","s","e">>, <<"c","o","w"," ","4","2"," ","m","o","v","e","d"," ","t","o"," ","n","o","r","t","h"," ","p","a","s","t","u","r","e">>,
     <<"S","o","l","d"," ","2"," ","H","e","i","f","e","r","s"," ","1",".","8",".","5"," ","l","b">>, <<"s","o","l","d"," ","5"," ","s","t","e","e","r","s"," ","$","1",".","8","5","/","l","b"," ","a","v","g"," ","1","1","0","0">>}

(***************************************************************************)
(* The state machine.                                                      *)
(***************************************************************************)
NoCommand == [none |-> TRUE]
NoReply == [template |-> "none"]
NoCall == << >>

InitRest ==
    /\ CATTLE_TYPES = CattleTypesTable
    /\ EVENT_TYPES = EventTypesTable
    /\ LOCATIONS = LocationsTable
    /\ QUERY_WORDS = QueryWordsTable
    /\ pc = "ready"
    /\ command = NoCommand
    /\ reply = NoReply
    /\ seen = NoCall
    /\ cattle = << >>
    /\ locations = DefaultLocations
    /\ events = << >>
    /\ sales = << >>
    /\ messages = << >>
    /\ result = EmptyDict
    /\ sender = ""

\* results a handler may hand to generate_response for a command
ErrorResult == [error |-> <<"e","r","r","o","r">>]
SampleResults(cmd) ==
    LET ct == cmd.command_type
    IN  {ErrorResult} \cup
        (CASE ct = "add_cattle" -> {[tag |-> cmd.params.tag, type |-> cmd.params.type]}
           [] ct = "move" -> {[success |-> TRUE], [success |-> FALSE]}
           [] ct = "query" -> {[count |-> 2], [location |-> Str(<<"B","a","r","n">>)], [cattle |-> <<1, 2>>]}
           [] ct = "status" -> {[total_head |-> 3, calves_ytd |-> 1,
                                 sales_ytd_head |-> 5, sales_ytd_amount |-> Flt(101755, 1)]}
           [] OTHER -> {EmptyDict})

\* a variant in which the parser keeps each text as a query trigger
ParseCall_Learning ==
    /\ pc = "ready"
    /\ command' = parse(text, today)
    /\ pc' = "parsed"
    /\ QUERY_WORDS' = Append(QUERY_WORDS, Lower(Strip(text)))
    /\ UNCHANGED <<CATTLE_TYPES, EVENT_TYPES, LOCATIONS, store, today, text, reply, seen,
                   sender, result, AUTHORIZED_NUMBERS>>

\* command = parser.parse(text)
ParseCall ==
    /\ pc = "ready"
    /\ command' = parse(text, today)
    /\ pc' = "parsed"
    /\ UNCHANGED <<tables, store, today, text, reply, seen, sender, result, AUTHORIZED_NUMBERS>>

\* reply = generate_response(command, res)
RenderCall ==
    /\ pc = "parsed"
    /\ ~Raised(command)
    /\ \E res \in SampleResults(command) :
            /\ reply' = generate_response(command, res)
            /\ result' = res
    /\ pc' = "rendered"
    /\ UNCHANGED <<tables, store, today, text, command, seen, sender, AUTHORIZED_NUMBERS>>

InitParse ==
    /\ InitRest
    /\ AUTHORIZED_NUMBERS = << >>
    /\ today \in Days
    /\ text \in Texts

NextParse ==
    \/ ParseCall
    \/ RenderCall

\* parse and generate_response as pure functions, on every text of Texts
SpecParse == InitParse /\ [][NextParse]_vars

\* the module-level parser is used for the next text; seen keeps the calls made
NextText ==
    /\ pc = "parsed"
    /\ Len(seen) < MaxCalls
    /\ seen' = Append(seen, [text |-> text, command |-> command])
    /\ text' \in RepeatTexts
    /\ pc' = "ready"
    /\ UNCHANGED <<tables, store, today, command, reply, sender, result, AUTHORIZED_NUMBERS>>

InitRepeat ==
    /\ InitRest
    /\ AUTHORIZED_NUMBERS = << >>
    /\ today \in Days
    /\ text \in RepeatTexts

NextRepeat ==
    \/ ParseCall
    \/ NextText

\* calls of parse, one after the other, on one parser and one calendar day
SpecRepeat == InitRepeat /\ [][NextRepeat]_vars

\* a variant in which a call of task t adds its text to the query triggers
TaskParse_Learning(t) ==
    /\ pc[t] = "ready"
    /\ command' = [command EXCEPT ![t] = parse(text[t], today)]
    /\ pc' = [pc EXCEPT ![t] = "parsed"]
    /\ QUERY_WORDS' = Append(QUERY_WORDS, Lower(Strip(text[t])))
    /\ UNCHANGED <<CATTLE_TYPES, EVENT_TYPES, LOCATIONS, store, today, text, reply, seen,
                   sender, result, AUTHORIZED_NUMBERS>>

\* task t calls parser.parse(text[t]) on the module-level parser
TaskParse(t) ==
    /\ pc[t] = "ready"
    /\ command' = [command EXCEPT ![t] = parse(text[t], today)]
    /\ pc' = [pc EXCEPT ![t] = "parsed"]
    /\ UNCHANGED <<tables, store, today, text, reply, seen, sender, result, AUTHORIZED_NUMBERS>>

\* task t calls generate_response(command[t], res)
TaskRender(t) ==
    /\ pc[t] = "parsed"
    /\ ~Raised(command[t])
    /\ \E res \in SampleResults(command[t]) :
            /\ reply' = [reply EXCEPT ![t] = generate_response(command[t], res)]
            /\ result' = [result EXCEPT ![t] = res]
    /\ pc' = [pc EXCEPT ![t] = "rendered"]
    /\ UNCHANGED <<tables, store, today, text, command, seen, sender, AUTHORIZED_NUMBERS>>

\* NumTasks request tasks, each with a text of its own, share the parser
InitConcurrent ==
    /\ CATTLE_TYPES = CattleTypesTable
    /\ EVENT_TYPES = EventTypesTable
    /\ LOCATIONS = LocationsTable
    /\ QUERY_WORDS = QueryWordsTable
    /\ pc = [t \in Tasks |-> "ready"]
    /\ command = [t \in Tasks |-> NoCommand]
    /\ reply = [t \in Tasks |-> NoReply]
    /\ result = [t \in Tasks |-> EmptyDict]
    /\ text \in [Tasks -> ConcurrentTexts]
    /\ today \in Days
    /\ seen = NoCall
    /\ cattle = << >>
    /\ locations = DefaultLocations
    /\ events = << >>
    /\ sales = << >>
    /\ messages = << >>
    /\ sender = ""
    /\ AUTHORIZED_NUMBERS = << >>

NextConcurrent ==
    \E t \in Tasks :
        \/ TaskParse(t)
        \/ TaskRender(t)

\* parse and generate_response calls of several tasks, in any order
SpecConcurrent == InitConcurrent /\ [][NextConcurrent]_vars

(***************************************************************************)
(* sms_incoming (app/main.py)                                              *)
(***************************************************************************)
check_authorized(phone) ==
    IF AUTHORIZED_NUMBERS = << >> THEN TRUE ELSE phone \in Range(AUTHORIZED_NUMBERS)

\* the try block of sms_incoming: the CattleDB call for the command, as the
\* result dict and the tables after it
Dispatch(cmd, day) ==
    LET p == cmd.params
        ct == cmd.command_type
        filters == Get(p, "filter", Dict(EmptyDict)).v
        qt == Get(p, "query_type", None)
        where(found) == [location |-> IF found = None THEN Str(<<"n","o","t"," ","f","o","u","n","d">>)
                                      ELSE found.location_name]
    IN  CASE ct = "add_cattle" ->
                add_cattle(Get(p, "tag", None), Get(p, "type", Str(<<"c","a","l","f">>)),
                           Get(p, "breed", Str(<<"A","n","g","u","s">>)), Get(p, "birth_date", None),
                           Get(p, "location", None), Get(p, "notes", None))
          [] ct = "move" ->
                LET wrap(r) == IF Raised(r) THEN r ELSE [r EXCEPT !.ret = [success |-> r.ret]]
                IN  wrap(update_location(Get(p, "tag", None), Get(p, "location", None)))
          [] ct = "health" ->
                add_event(Get(p, "tag", None), Get(p, "event_type", None),
                          Get(p, "details", None), Get(p, "date", None), day)
          [] ct = "sale" ->
                add_sale(Get(p, "head_count", Num(1)), Get(p, "price_per_lb", None),
                         Get(p, "avg_weight", None), Get(p, "cattle_type", Str(<<"s","t","e","e","r">>)),
                         Get(p, "buyer", None), Get(p, "date", None), day)
          [] ct = "query" /\ qt = Str(<<"c","o","u","n","t">>) ->
                Unchanged([count |-> count_cattle(Get(filters, "type", None),
                                                  Get(filters, "since", None))])
          [] ct = "query" /\ qt = Str(<<"l","o","c","a","t","i","o","n">>) ->
                Unchanged(where(get_cattle(Get(filters, "tag", None)).ret))
          [] ct = "query" /\ qt = Str(<<"l","i","s","t">>) -> Unchanged([cattle |-> get_all_cattle])
          [] ct = "status" -> Unchanged(get_stats(day))
          [] ct = "help" -> Unchanged(EmptyDict)
          [] OTHER -> Unchanged([error |-> "unknown command"])

\* except Exception as e: result = {"error": str(e)}
Execute(cmd, day) ==
    LET keep(r) == IF Raised(r) THEN Unchanged([error |-> r.raised]) ELSE r
    IN  keep(Dispatch(cmd, day))

Requests == Cardinality({k \in 1..Len(messages) : messages[k].direction = "inbound"})

\* what a request leaves behind: the handler's position, command, result and
\* reply, and the tables
Outcome(at, cmd, res, answer, c, l, e, s, m) ==
    [pc |-> at, command |-> cmd, result |-> res, reply |-> answer,
     cattle |-> c, locations |-> l, events |-> e, sales |-> s, messages |-> m]

\* the part of sms_incoming after the command is parsed
Respond(cmd, From, logged, day) ==
    IF Raised(cmd)
    \* parser.parse is called outside the try block: the request ends in an error
    THEN Outcome("aborted", cmd, EmptyDict, NoReply, cattle, locations, events, sales, logged)
    ELSE LET done == Execute(cmd, day)
             answer == generate_response(cmd, done.ret)
         IN  Outcome("replied", cmd, done.ret, answer,
                     done.cattle, done.locations, done.events, done.sales,
                     Append(logged, [phone_number |-> From, direction |-> "outbound",
                                     body |-> answer, parsed_action |-> cmd.command_type]))

sms_incoming(Body, From) ==
    LET logged == log_message(From, "inbound", Body, "")
        out == IF ~check_authorized(From)
               THEN Outcome("unauthorized", NoCommand, EmptyDict, [template |-> "Unauthorized"],
                            cattle, locations, events, sales, logged)
               ELSE Respond(parse(Body, today), From, logged, today)
    IN  /\ Requests < MaxRequests
        /\ text' = Body
        /\ sender' = From
        /\ \E o \in {out} :
            /\ pc' = o.pc
            /\ command' = o.command
            /\ result' = o.result
            /\ reply' = o.reply
            /\ cattle' = o.cattle
            /\ locations' = o.locations
            /\ events' = o.events
            /\ sales' = o.sales
            /\ messages' = o.messages
        /\ UNCHANGED <<tables, today, seen, AUTHORIZED_NUMBERS>>

(***************************************************************************)
(* voice_incoming and voice_process (app/main.py)                          *)
(***************************************************************************)
\* POST /voice/incoming: a Gather for speech, or a hang-up for a caller that is
\* not authorized; nothing is logged
voice_incoming(From) ==
    /\ Requests < MaxRequests
    /\ pc' = IF check_authorized(From) THEN "voice_gather" ELSE "voice_hangup"
    /\ sender' = From
    /\ text' = << >>
    /\ command' = NoCommand
    /\ result' = EmptyDict
    /\ reply' = [template |-> IF check_authorized(From) THEN "Welcome" ELSE "Not authorized"]
    /\ UNCHANGED <<tables, store, today, seen, AUTHORIZED_NUMBERS>>

\* the try block of voice_process
VoiceDispatch(cmd, day) ==
    LET p == cmd.params
        ct == cmd.command_type
        filters == Get(p, "filter", Dict(EmptyDict)).v
        qt == Get(p, "query_type", None)
    IN  CASE ct = "add_cattle" ->
                add_cattle(Get(p, "tag", None), Get(p, "type", Str(<<"c","a","l","f">>)),
                           Str(<<"A","n","g","u","s">>), Get(p, "birth_date", None),
                           Get(p, "location", None), Get(p, "notes", None))
          [] ct = "move" ->
                LET wrap(r) == IF Raised(r) THEN r ELSE [r EXCEPT !.ret = [success |-> TRUE]]
                IN  wrap(update_location(Get(p, "tag", None), Get(p, "location", None)))
          [] ct = "health" ->
                add_event(Get(p, "tag", None), Get(p, "event_type", None),
                          Get(p, "details", None), None, day)
          [] ct = "sale" ->
                add_sale(Get(p, "head_count", Num(1)), Get(p, "price_per_lb", None),
                         Get(p, "avg_weight", None), Get(p, "cattle_type", Str(<<"s","t","e","e","r">>)),
                         None, None, day)
          [] ct = "status" -> Unchanged(get_stats(day))
          [] ct = "query" /\ qt = Str(<<"c","o","u","n","t">>) ->
                Unchanged([count |-> count_cattle(Get(filters, "type", None),
                                                  Get(filters, "since", None))])
          [] OTHER -> Unchanged(EmptyDict)

VoiceExecute(cmd, day) ==
    LET keep(r) == IF Raised(r) THEN Unchanged([error |-> r.raised]) ELSE r
    IN  keep(VoiceDispatch(cmd, day))

\* the part of voice_process after the command is parsed
VoiceRespond(cmd, From, logged, day) ==
    IF Raised(cmd)
    THEN Outcome("voice_aborted", cmd, EmptyDict, NoReply, cattle, locations, events, sales, logged)
    ELSE LET done == VoiceExecute(cmd, day)
             answer == generate_response(cmd, done.ret)
         IN  Outcome("voice_replied", cmd, done.ret, answer,
                     done.cattle, done.locations, done.events, done.sales,
                     Append(logged, [phone_number |-> From, direction |-> "outbound",
                                     body |-> [voice |-> answer], parsed_action |-> ""]))

\* POST /voice/process
voice_process(SpeechResult, From) ==
    LET logged == log_message(From, "inbound", <<"[","V","O","I","C","E","]"," ">> \o SpeechResult, "")
        out == IF SpeechResult = << >>
               THEN Outcome("voice_retry", NoCommand, EmptyDict, [template |-> "Try again"],
                            cattle, locations, events, sales, messages)
               ELSE VoiceRespond(parse(SpeechResult, today), From, logged, today)
    IN  /\ Requests < MaxRequests
        /\ text' = SpeechResult
        /\ sender' = From
        /\ \E o \in {out} :
            /\ pc' = o.pc
            /\ command' = o.command
            /\ result' = o.result
            /\ reply' = o.reply
            /\ cattle' = o.cattle
            /\ locations' = o.locations
            /\ events' = o.events
            /\ sales' = o.sales
            /\ messages' = o.messages
        /\ UNCHANGED <<tables, today, seen, AUTHORIZED_NUMBERS>>

Init ==
    /\ InitRest
    /\ AUTHORIZED_NUMBERS \in Configurations
    /\ today \in Days
    /\ text = << >>

Next ==
    \/ \E Body \in HandlerTexts, From \in Senders : sms_incoming(Body, From)
    \/ \E From \in Senders : voice_incoming(From)
    \/ \E SpeechResult \in VoiceTexts, From \in Senders : voice_process(SpeechResult, From)

Spec == Init /\ [][Next]_vars

NextSale == \E Body \in SaleRequestTexts, From \in Senders : sms_incoming(Body, From)

\* sms_incoming on sale messages only
SpecSale == Init /\ [][NextSale]_vars

NextAdd == \E Body \in AddRequestTexts, From \in Senders : sms_incoming(Body, From)

\* sms_incoming on additions only
SpecAdd == Init /\ [][NextAdd]_vars

(***************************************************************************)
(* Properties of parse and generate_response, checked under SpecParse.     *)
(***************************************************************************)
\* the stripped, lower-cased text of the call
Lowered == Lower(Strip(text))
\* parse has returned a command
Parsed == pc \in {"parsed", "rendered"} /\ ~Raised(command)

Recognized == {"help", "status", "query", "sale", "health", "move", "add_cattle"}

\* C1: the confidence of the command parse returns is 0 exactly when its intent
\* is unknown; for every recognised intent, health by inference included, it
\* is greater than 0 and at most 1 (100 hundredths).
C1_ConfidenceZeroIffUnknown ==
    Parsed =>
        /\ command.command_type \in Recognized \cup {"unknown"}
        /\ command.confidence = 0 <=> command.command_type = "unknown"
        /\ command.command_type \in Recognized =>
              command.confidence > 0 /\ command.confidence <= 100

\* a health command that the fallback inference made
C1_Witness ==
    /\ Parsed
    /\ Branch(Lowered) = "infer"
    /\ command.command_type = "health"
    /\ command.confidence = 70

\* C2: the intent is that of the first check that matches, in the order help,
\* status, query, sale, health, move, add; the fallback inference decides only
\* when none of them matches.
C2_FirstMatchWins ==
    Parsed =>
        LET l == Lowered
            ct == command.command_type
        IN  /\ IsHelp(l) => ct = "help"
            /\ ~IsHelp(l) /\ IsStatus(l) => ct = "status"
            /\ ~IsHelp(l) /\ ~IsStatus(l) /\ IsQuery(l) => ct = "query"
            /\ ~IsHelp(l) /\ ~IsStatus(l) /\ ~IsQuery(l) /\ IsSale(l) => ct = "sale"
            /\ ~IsHelp(l) /\ ~IsStatus(l) /\ ~IsQuery(l) /\ ~IsSale(l) /\ IsEvent(l) =>
                  ct = "health"
            /\ ~IsHelp(l) /\ ~IsStatus(l) /\ ~IsQuery(l) /\ ~IsSale(l) /\ ~IsEvent(l)
                  /\ IsMove(l) => ct = "move"
            /\ ~IsHelp(l) /\ ~IsStatus(l) /\ ~IsQuery(l) /\ ~IsSale(l) /\ ~IsEvent(l)
                  /\ ~IsMove(l) /\ IsAdd(l) => ct = "add_cattle"
            /\ ~IsHelp(l) /\ ~IsStatus(l) /\ ~IsQuery(l) /\ ~IsSale(l) /\ ~IsEvent(l)
                  /\ ~IsMove(l) /\ ~IsAdd(l) => ct \in {"health", "unknown"}

\* a text that the sale, health and add checks all match, parsed as a sale
C2_Witness ==
    /\ Parsed
    /\ ~IsQuery(Lowered)
    /\ IsSale(Lowered)
    /\ IsEvent(Lowered)
    /\ IsAdd(Lowered)
    /\ command.command_type = "sale"

\* the text holds "sold" and a word of some event type
SoldAndHealthWord == Contains(Lowered, <<"s","o","l","d">>) /\ IsEvent(Lowered)

\* C3, as stated: every text that holds "sold" and a health keyword is parsed as
\* a sale.
C3_SoldAlwaysSale ==
    Parsed /\ SoldAndHealthWord => command.command_type = "sale"

\* C3, amended: a text that holds "sold" and a health keyword is never parsed as
\* health: with a query trigger in it it is a query, and without one it is a
\* sale or, when the token before "lb" is no number, the call raises.
C3_SoldNeverHealth ==
    pc \in {"parsed", "rendered"} /\ SoldAndHealthWord =>
        IF IsQuery(Lowered) THEN Parsed /\ command.command_type = "query"
        ELSE Raised(command) \/ command.command_type = "sale"

\* "sold" with a health keyword and no query trigger, parsed as a sale
C3_Witness ==
    /\ Parsed
    /\ SoldAndHealthWord
    /\ ~IsQuery(Lowered)
    /\ command.command_type = "sale"

\* C4: parse returns a command for every text; it never raises.
C4_ParseNeverRaises == pc \in {"parsed", "rendered"} => ~Raised(command)

\* the slots of each intent
SlotNames(ct) ==
    CASE ct = "add_cattle" -> {"type", "breed", "birth_date", "tag", "location", "notes"}
      [] ct = "move" -> {"tag", "location"}
      [] ct = "health" -> {"tag", "event_type", "details", "date"}
      [] ct = "sale" -> {"head_count", "price_per_lb", "avg_weight", "cattle_type", "buyer", "date"}
      [] ct = "query" -> {"query_type", "filter"}
      [] OTHER -> {}

\* C6: the params of a command hold every slot of its intent, and the filter of
\* a query holds type, since and tag.
C6_AllSlotsPresent ==
    Parsed =>
        /\ SlotNames(command.command_type) \subseteq DOMAIN command.params
        /\ command.command_type = "query" =>
              {"type", "since", "tag"} \subseteq DOMAIN command.params.filter.v

StartsWith(s, w) == StartsAt(s, 1, w)

\* C8: "add calf born today red tag" is an add_cattle command with type calf,
\* birth_date today, a tag that starts with "RED-" and notes "red tag".
C8_AddCalfScenario ==
    pc \in {"parsed", "rendered"} /\ text = <<"a","d","d"," ","c","a","l","f"," ","b","o","r","n"," ","t","o","d","a","y"," ","r","e","d"," ","t","a","g">> =>
        /\ ~Raised(command)
        /\ command.command_type = "add_cattle"
        /\ command.params.type = Str(<<"c","a","l","f">>)
        /\ command.params.birth_date = Dt(today)
        /\ StartsWith(command.params.tag.v, <<"R","E","D","-">>)
        /\ command.params.notes = Str(<<"r","e","d"," ","t","a","g">>)

CountTrigger(lower) == AnyIn(<<<<"h","o","w"," ","m","a","n","y">>, <<"c","o","u","n","t">>, <<"t","o","t","a","l">>>>, lower)

\* C9: "how many calves this month" is a count query with filter type calf and
\* since the first day of the month; and a count query has as filter type the
\* first cattle type one of whose synonyms is in the text.
C9_CountFilterType ==
    LET f == command.params.filter.v
        k == FirstCategory(CATTLE_TYPES, Lowered)
    IN  /\ pc \in {"parsed", "rendered"} /\ text = <<"h","o","w"," ","m","a","n","y"," ","c","a","l","v","e","s"," ","t","h","i","s"," ","m","o","n","t","h">> =>
              /\ ~Raised(command)
              /\ command.command_type = "query"
              /\ command.params.query_type = Str(<<"c","o","u","n","t">>)
              /\ Get(f, "type", None) = Str(<<"c","a","l","f">>)
              /\ Get(f, "since", None) = Dt(FirstOfMonth(today))
        /\ Parsed /\ command.command_type = "query" /\ CountTrigger(Lowered)
              /\ command.params.query_type = Str(<<"c","o","u","n","t">>) /\ k # 0 =>
              Get(f, "type", None) = Str(CATTLE_TYPES[k].name)

Abs(x) == IF x < 0 THEN -x ELSE x

\* head_count * price_per_lb * avg_weight of the command, as <<m, e>> for
\* m / 10^e, a slot that is None counted as 0
SlotProduct ==
    LET p == command.params
        price == IF p.price_per_lb = None THEN Flt(0, 0) ELSE p.price_per_lb
        weight == IF p.avg_weight = None THEN Flt(0, 0) ELSE p.avg_weight
    IN  <<p.head_count.v * price.m * weight.m, price.e + weight.e>>

SaleRendered == pc = "rendered" /\ command.command_type = "sale"

SaleScenario ==
    pc = "rendered" /\ text = <<"s","o","l","d"," ","5"," ","s","t","e","e","r","s"," ","$","1",".","8","5","/","l","b"," ","a","v","g"," ","1","1","0","0">> =>
        /\ command.command_type = "sale"
        /\ command.params.head_count = Num(5)
        /\ command.params.price_per_lb = Flt(185, 2)
        /\ command.params.avg_weight = Flt(1100, 0)
        /\ command.params.cattle_type = Str(<<"s","t","e","e","r">>)
        /\ reply.template = "Recorded sale"
        /\ reply.amt = 10175

\* C10, as stated: the amount in the confirmation of a sale is head_count *
\* price_per_lb * avg_weight; "sold 5 steers $1.85/lb avg 1100" is a sale of 5
\* steers at 1.85 and 1100 and its confirmation shows 10,175.
C10_AmountIsProduct ==
    /\ SaleRendered => reply.amt * Pow10(SlotProduct[2]) = SlotProduct[1]
    /\ SaleScenario

\* C10, amended: the amount in the confirmation is that product rounded to a
\* whole number: it is a whole number at most one half away from the product.
C10_AmountIsRoundedProduct ==
    /\ SaleRendered =>
          2 * Abs(reply.amt * Pow10(SlotProduct[2]) - SlotProduct[1]) <= Pow10(SlotProduct[2])
    /\ SaleScenario

\* a sale with a price and a weight whose product is not a whole number
C10_Witness ==
    /\ SaleRendered
    /\ command.params.price_per_lb # None
    /\ command.params.avg_weight # None
    /\ SlotProduct[1] % Pow10(SlotProduct[2]) # 0

(***************************************************************************)
(* Properties of repeated calls, checked under SpecRepeat.                 *)
(***************************************************************************)
\* C7: a call of parse returns what every earlier call on the same text
\* returned: the same intent, slots, confidence and raw_text, whatever calls
\* were made in between.
C7_ParseDeterministic ==
    pc = "parsed" =>
        \A k \in 1..Len(seen) : seen[k].text = text => seen[k].command = command

\* a text parsed a second time, with another text parsed in between
C7_Witness ==
    /\ pc = "parsed"
    /\ Len(seen) = 2
    /\ seen[1].text = text
    /\ seen[2].text # text
    /\ ~Raised(command)
    /\ command.command_type = "query"

(***************************************************************************)
(* Properties of sms_incoming, checked under Spec.                         *)
(***************************************************************************)
\* the CattleDB call of the last request raised
ExecutorFailed ==
    /\ pc = "replied"
    /\ "error" \in DOMAIN result
    /\ command.command_type # "unknown"

\* C5: when the CattleDB call for a command fails, the reply is the generic
\* acknowledgment, whatever the intent.
C5_FailureGetsGenericReply == ExecutorFailed => reply.template = "Command received"

(***************************************************************************)
(* Properties of the extractors, checked under SpecParse.                  *)
(***************************************************************************)
\* the id pattern of _parse_move finds a tag in the text
MoveTagFound == IdAfter(Lowered, CattleIdPrefixes) # NoMatch
\* one of the location patterns of _parse_move finds a location in the text
MoveLocationFound == ExtractLocation(Lowered) # None

\* C11: a move command has confidence 0.9 when the id pattern gives a tag and a
\* location pattern gives a location, and 0.6 when at most one of them does;
\* the slots tag and location are filled exactly when the patterns match.
C11_MoveConfidence ==
    Parsed /\ command.command_type = "move" =>
        /\ command.params.tag # None <=> MoveTagFound
        /\ command.params.location # None <=> MoveLocationFound
        /\ command.confidence = IF MoveTagFound /\ MoveLocationFound THEN 90 ELSE 60

\* a move with a tag and no location, scored 0.6
C11_Witness ==
    /\ Parsed
    /\ command.command_type = "move"
    /\ MoveTagFound
    /\ ~MoveLocationFound
    /\ command.confidence = 60

\* none of the four tag patterns of _parse_add matches the text
NoTagPattern ==
    /\ TagAfterWord(Lowered) = NoMatch
    /\ TagAfterHash(Lowered) = NoMatch
    /\ WordBeforeTag(Lowered) = NoMatch
    /\ TagAfterNumber(Lowered) = NoMatch

\* two digits for the month, then two digits for the day of today
PaddedMonthDay ==
    <<DigitChar(today.m \div 10), DigitChar(today.m % 10),
      DigitChar(today.d \div 10), DigitChar(today.d % 10)>>

\* C12: an add_cattle command for a text that no tag pattern matches and that
\* contains "red" has the tag "RED-" followed by today's zero-padded month and
\* day, never "NEW-" followed by them.
C12_RedTag ==
    Parsed /\ command.command_type = "add_cattle" /\ NoTagPattern
           /\ Contains(Lowered, <<"r","e","d">>) =>
        /\ command.params.tag = Str(<<"R","E","D","-">> \o PaddedMonthDay)
        /\ command.params.tag # Str(<<"N","E","W","-">> \o PaddedMonthDay)

\* an add_cattle command with "red" in the text and no tag in it
C12_Witness ==
    /\ Parsed
    /\ command.command_type = "add_cattle"
    /\ NoTagPattern
    /\ Contains(Lowered, <<"r","e","d">>)
    /\ command.params.tag = Str(<<"R","E","D","-">> \o PaddedMonthDay)
    /\ command.params.notes = Str(<<"r","e","d">>)

\* C13: a text that, stripped and lower-cased, is "help", "?", "commands" or
\* "what can you do" is parsed as help with confidence 1.0 and no slots, also
\* when it holds a query trigger.
C13_HelpLiteral ==
    pc \in {"parsed", "rendered"}
        /\ Lowered \in {<<"h","e","l","p">>, <<"?">>, <<"c","o","m","m","a","n","d","s">>, <<"w","h","a","t"," ","c","a","n"," ","y","o","u"," ","d","o">>} =>
        /\ ~Raised(command)
        /\ command.command_type = "help"
        /\ command.confidence = 100
        /\ command.params = EmptyDict

\* the help literal with the query trigger "what" in it, parsed as help
C13_Witness ==
    /\ Parsed
    /\ Lowered = <<"w","h","a","t"," ","c","a","n"," ","y","o","u"," ","d","o">>
    /\ IsQuery(Lowered)
    /\ command.command_type = "help"
    /\ command.confidence = 100

\* none of the seven checks of parse matches the text
NoCheckMatched ==
    /\ ~IsHelp(Lowered)
    /\ ~IsStatus(Lowered)
    /\ ~IsQuery(Lowered)
    /\ ~IsSale(Lowered)
    /\ ~IsEvent(Lowered)
    /\ ~IsMove(Lowered)
    /\ ~IsAdd(Lowered)

\* the stripped text is digits, whitespace and a remainder: <<digits, remainder>>
DigitsThenRemainder == TagThenRest(Strip(text))

\* the remainder, in lower case, contains a distress word
DistressInRemainder ==
    /\ DigitsThenRemainder # NoMatch
    /\ AnyIn(<<<<"s","i","c","k">>, <<"l","i","m","p","i","n","g">>, <<"d","o","w","n">>, <<"p","r","o","b","l","e","m">>>>, Lower(DigitsThenRemainder[2]))

\* the fallback is reached only when no check matched
FallbackOnlyWhenNoCheck ==
    Parsed /\ (command.command_type = "unknown" \/ command.confidence = 70) => NoCheckMatched

\* C15, as stated: the fallback is reached only when no check matched; it gives
\* health with event_type "note", the remainder of the text as details and
\* confidence 0.7 for digits, whitespace and a remainder with a distress word in
\* it, and else unknown with slots {raw: the original text} and confidence 0.
C15_FallbackRemainder ==
    /\ FallbackOnlyWhenNoCheck
    /\ Parsed /\ NoCheckMatched =>
          IF DistressInRemainder
          THEN /\ command.command_type = "health"
               /\ command.params.event_type = Str(<<"n","o","t","e">>)
               /\ command.params.details = Str(DigitsThenRemainder[2])
               /\ command.confidence = 70
          ELSE /\ command.command_type = "unknown"
               /\ command.params = [raw |-> Str(text)]
               /\ command.confidence = 0

\* C15, amended: as above, with the lower-cased remainder as details and the
\* stripped text as raw.
C15_FallbackLowerRemainder ==
    /\ FallbackOnlyWhenNoCheck
    /\ Parsed /\ NoCheckMatched =>
          IF DistressInRemainder
          THEN /\ command.command_type = "health"
               /\ command.params.event_type = Str(<<"n","o","t","e">>)
               /\ command.params.details = Str(Lower(DigitsThenRemainder[2]))
               /\ command.params.tag = Str(DigitsThenRemainder[1])
               /\ command.confidence = 70
          ELSE /\ command.command_type = "unknown"
               /\ command.params = [raw |-> Str(Strip(text))]
               /\ command.confidence = 0

\* an inferred health command whose remainder was typed with capitals
C15_Witness ==
    /\ Parsed
    /\ NoCheckMatched
    /\ DistressInRemainder
    /\ DigitsThenRemainder[2] # Lower(DigitsThenRemainder[2])
    /\ command.command_type = "health"
    /\ command.params.details = Str(Lower(DigitsThenRemainder[2]))

HasWhere == Contains(Lowered, <<"w","h","e","r","e">>)
HasCountWord == CountTrigger(Lowered)
HasListWord ==
    Contains(Lowered, <<"l","i","s","t">>) \/ Contains(Lowered, <<"s","h","o","w">>) \/ Contains(Lowered, <<"a","l","l">>)

\* C17: the query_type of a query is "location" when the text holds "where",
\* else "count" when it holds "how many", "count" or "total", else "list" when
\* it holds "list", "show" or "all"; a query with none of these words still
\* has one of the three values.
C17_QueryTypeOrder ==
    Parsed /\ command.command_type = "query" =>
        /\ command.params.query_type \in {Str(<<"c","o","u","n","t">>), Str(<<"l","o","c","a","t","i","o","n">>), Str(<<"l","i","s","t">>)}
        /\ HasWhere => command.params.query_type = Str(<<"l","o","c","a","t","i","o","n">>)
        /\ ~HasWhere /\ HasCountWord => command.params.query_type = Str(<<"c","o","u","n","t">>)
        /\ ~HasWhere /\ ~HasCountWord /\ HasListWord => command.params.query_type = Str(<<"l","i","s","t">>)
        /\ ~HasWhere /\ ~HasCountWord /\ ~HasListWord =>
              Contains(Lowered, <<"w","h","a","t">>) \/ Contains(Lowered, <<"s","t","a","t","u","s">>)

\* a query with "where" and a count word in it, typed as a location query
C17_Witness ==
    /\ Parsed
    /\ command.command_type = "query"
    /\ HasWhere
    /\ HasCountWord
    /\ command.params.query_type = Str(<<"l","o","c","a","t","i","o","n">>)

(***************************************************************************)
(* Properties of concurrent calls, checked under SpecConcurrent.           *)
(***************************************************************************)
\* C16: however the parse and render calls of the tasks interleave, the lexical
\* tables stay as the class body set them, and each task holds the command and
\* the reply that its text and its result give on their own.
C16_ConcurrentCallsIndependent ==
    /\ tables = <<CattleTypesTable, EventTypesTable, LocationsTable, QueryWordsTable>>
    /\ \A t \in Tasks :
        /\ pc[t] \in {"parsed", "rendered"} => command[t] = parse(text[t], today)
        /\ pc[t] = "rendered" => reply[t] = generate_response(command[t], result[t])

\* one task has parsed and rendered a query while another, with another text,
\* has parsed and not rendered
C16_Witness ==
    \E t, u \in Tasks :
        /\ t # u
        /\ text[t] # text[u]
        /\ pc[t] = "rendered"
        /\ command[t].command_type = "query"
        /\ pc[u] = "parsed"

(***************************************************************************)
(* Properties of the handlers and the store, checked under Spec.           *)
(***************************************************************************)
\* the records of the store
records == <<cattle, locations, events, sales>>

\* the number of rows in the store
Rows == Len(cattle) + Len(locations) + Len(events) + Len(sales)

\* every slot of the last command is in the store: the cattle record of an
\* add has its tag, type, breed, birth date, notes and location; the cattle of
\* a move is at its location; the event of a health command is tied to the
\* cattle of its tag; the sale record has the slots of a sale
SlotsApplied ==
    LET p == command.params
        ct == command.command_type
    IN  CASE ct = "add_cattle" ->
                \E k \in 1..Len(cattle) :
                    /\ cattle[k].tag = p.tag
                    /\ cattle[k].type = p.type
                    /\ cattle[k].breed = p.breed
                    /\ cattle[k].birth_date = p.birth_date
                    /\ cattle[k].notes = p.notes
                    /\ p.location # None => cattle[k].location_id # 0
          [] ct = "move" ->
                /\ p.tag # None
                /\ p.location # None
                /\ \E k \in 1..Len(cattle) :
                    /\ cattle[k].tag = p.tag
                    /\ cattle[k].location_id # 0
                    /\ LikeContains(locations[cattle[k].location_id].name, p.location.v)
          [] ct = "health" ->
                \E k \in 1..Len(events) :
                    /\ events[k].event_type = p.event_type
                    /\ events[k].details = p.details
                    /\ Get(p, "tag", None) # None => events[k].cattle_id # 0
          [] ct = "sale" ->
                \E k \in 1..Len(sales) :
                    /\ sales[k].head_count = p.head_count
                    /\ sales[k].price_per_lb = p.price_per_lb
                    /\ sales[k].cattle_type = p.cattle_type
                    /\ sales[k].buyer = p.buyer
                    /\ sales[k].sale_date = p.date
          [] OTHER -> FALSE

\* C14: a message handled by sms_incoming writes through at most one CattleDB
\* call, and that call either puts every slot of the command into the store or
\* leaves the cattle, locations, events and sales records as they were.
C14_AllOrNothing ==
    [][pc' = "replied" /\ messages' # messages =>
          /\ Rows' <= Rows + 1
          /\ records' = records \/ SlotsApplied']_vars

\* what sms_incoming would do with the command of this step, from the store
\* as it was before the step
SmsWouldDo == Execute(command', today)

\* C18: voice_process does with an utterance what sms_incoming does with the
\* same text: the same change of the store and the same reply.
C18_VoiceSameAsSms ==
    [][pc' = "voice_replied" =>
          /\ records' = <<SmsWouldDo.cattle, SmsWouldDo.locations,
                          SmsWouldDo.events, SmsWouldDo.sales>>
          /\ reply' = generate_response(command', SmsWouldDo.ret)]_vars

\* C20: with a list of authorized numbers, a request from a number outside the
\* list, on sms_incoming, voice_incoming or voice_process, gets no command
\* parsed and leaves the cattle, locations, events and sales records alone.
C20_UnauthorizedNeverExecutes ==
    [][AUTHORIZED_NUMBERS # << >> /\ sender' \notin Range(AUTHORIZED_NUMBERS) =>
          command' = NoCommand /\ records' = records]_vars

(***************************************************************************)
(* Properties of a sale, checked under SpecSale.                           *)
(***************************************************************************)
\* sms_incoming has recorded a sale with add_sale
SaleRecorded ==
    /\ pc = "replied"
    /\ command.command_type = "sale"
    /\ "error" \notin DOMAIN result

\* the total_amount of the sale record just written, NULL counted as 0
PersistedTotal == OrZero(sales[Len(sales)].total_amount)

\* C19, as stated: the amount in the confirmation of a recorded sale equals the
\* total_amount that add_sale stored, a NULL total counted as 0.
C19_ShownEqualsPersisted ==
    SaleRecorded => reply.amt * Pow10(PersistedTotal.e) = PersistedTotal.m

\* C19, amended: the amount in the confirmation of a recorded sale is a whole
\* number at most one half away from the total_amount that add_sale stored and
\* returned (NULL counted as 0): the stored total rounded to whole dollars.
C19_ShownIsRoundedPersisted ==
    SaleRecorded =>
        /\ sales[Len(sales)].total_amount = result.total_amount
        /\ 2 * Abs(reply.amt * Pow10(PersistedTotal.e) - PersistedTotal.m)
              <= Pow10(PersistedTotal.e)

\* a recorded sale whose stored total is no whole number
C19_Witness ==
    /\ SaleRecorded
    /\ sales[Len(sales)].total_amount # None
    /\ PersistedTotal.m % Pow10(PersistedTotal.e) # 0

(***************************************************************************)
(* Properties of additions, checked under SpecAdd.                         *)
(***************************************************************************)
\* no two cattle records have the same tag
TagsDistinct == \A i, j \in 1..Len(cattle) : cattle[i].tag = cattle[j].tag => i = j

\* the step is sms_incoming executing an add_cattle command whose tag a cattle
\* record already has
AddOfTakenTag ==
    /\ pc' = "replied"
    /\ messages' # messages
    /\ command'.command_type = "add_cattle"
    /\ \E k \in 1..Len(cattle) : cattle[k].tag = command'.params.tag

\* C21: after any sequence of additions no two cattle records share a tag, and
\* an add_cattle whose tag already exists ends in an error and leaves the cattle
\* records as they were.
C21_TagsStayUnique ==
    /\ []TagsDistinct
    /\ [][AddOfTakenTag => "error" \in DOMAIN result' /\ cattle' = cattle]_vars

\* a second addition with no tag and no colour on 2 November: its tag NEW-1102
\* is taken, the INSERT has failed and the one record is still there
C21_Witness ==
    /\ pc = "replied"
    /\ today = Day(2026, 11, 2)
    /\ command.command_type = "add_cattle"
    /\ command.params.tag = Str(<<"N","E","W","-","1","1","0","2">>)
    /\ result = [error |-> "IntegrityError"]
    /\ Len(cattle) = 1
    /\ cattle[1].tag = Str(<<"N","E","W","-","1","1","0","2">>)
    /\ Len(messages) = 4

====
